---- MODULE Spec2Model ----
(***************************************************************************)
(* Model of the summarization service of jeth-lasa:                        *)
(*   POST   /api/summarize     src/jethulasa/app/api/summaries/route.ts    *)
(*   GET    /api/summaries     src/jethulasa/app/api/summaries/route.ts    *)
(*   GET    /api/history       src/jethulasa/app/api/summary/[id]/route.ts *)
(*   DELETE /api/history/{id}  src/jethulasa/app/api/summary/[id]/route.ts *)
(* over the User and Summary tables of src/jethulasa/middleware.ts.        *)
(*                                                                         *)
(* A JavaScript string is a sequence of one-character strings, except the  *)
(* extracted PDF text, which is held run-length encoded (a sequence of     *)
(* runs [c, n]) so that texts of tens of thousands of characters stay      *)
(* small; length, slice and trim are defined on that encoding.             *)
(***************************************************************************)
EXTENDS Integers, Sequences, FiniteSets, TLC

Min(a, b) == IF a < b THEN a ELSE b
Max(a, b) == IF a > b THEN a ELSE b

(***************************************************************************)
(* Short strings: sequences of characters.                                 *)
(***************************************************************************)
Q == "\""

\* String.prototype.slice(a, b) for 0 <= a, b: characters a .. b-1.
SliceStr(s, a, b) == SubSeq(s, a + 1, Min(b, Len(s)))

\* String.prototype.indexOf(c): 0-based index of the first c, or -1.
IndexOf(s, c) ==
    LET hits == {i \in 1..Len(s) : s[i] = c}
    IN  IF hits = {} THEN -1 ELSE (CHOOSE i \in hits : \A j \in hits : i <= j) - 1

\* String.prototype.lastIndexOf(c): 0-based index of the last c, or -1.
LastIndexOf(s, c) ==
    LET hits == {i \in 1..Len(s) : s[i] = c}
    IN  IF hits = {} THEN -1 ELSE (CHOOSE i \in hits : \A j \in hits : i >= j) - 1

\* n copies of the character c.
Rep(c, n) == [i \in 1..n |-> c]

S_summary == <<"s", "u", "m", "m", "a", "r", "y">>
S_title == <<"t", "i", "t", "l", "e">>
S_keywords == <<"k", "e", "y", "w", "o", "r", "d", "s">>
S_document == <<"d", "o", "c", "u", "m", "e", "n", "t">>
S_analysis == <<"a", "n", "a", "l", "y", "s", "i", "s">>

(***************************************************************************)
(* JSON.parse, on the JSON texts built from objects, arrays, strings       *)
(* without escapes, unsigned integers, null and blanks.  A JavaScript      *)
(* value is a record [t, v]: t its type tag, v its content.                *)
(***************************************************************************)
Undefined == [t |-> "undefined", v |-> <<>>]
JNull == [t |-> "null", v |-> <<>>]
JStr(s) == [t |-> "str", v |-> s]
JNum(d) == [t |-> "num", v |-> d]
JArr(es) == [t |-> "arr", v |-> es]
JObj(ms) == [t |-> "obj", v |-> ms]

Digits == {"0", "1", "2", "3", "4", "5", "6", "7", "8", "9"}

PFail == [ok |-> FALSE, v |-> JNull, p |-> 0]
POk(val, pos) == [ok |-> TRUE, v |-> val, p |-> pos]

\* The first position >= p of s that holds no blank (Len(s) + 1 at the end).
RECURSIVE SkipWs(_, _)
SkipWs(s, p) ==
    IF p <= Len(s) /\ s[p] = " " THEN SkipWs(s, p + 1) ELSE p

\* The first position >= p of s that holds no digit.
RECURSIVE SkipDigits(_, _)
SkipDigits(s, p) ==
    IF p <= Len(s) /\ s[p] \in Digits THEN SkipDigits(s, p + 1) ELSE p

\* A string literal starting at the quote s[p].
ParseString(s, p) ==
    LET ends == {i \in (p + 1)..Len(s) : s[i] = Q}
    IN  IF ends = {} THEN PFail
        ELSE LET e == CHOOSE i \in ends : \A j \in ends : i <= j
             IN  POk(JStr(SubSeq(s, p + 1, e - 1)), e + 1)

RECURSIVE ParseValue(_, _)
RECURSIVE ParseMembers(_, _, _)
RECURSIVE ParseElements(_, _, _)

\* The members of an object, from the key expected at p; ms are those read.
ParseMembers(s, p, ms) ==
    LET k == SkipWs(s, p)
    IN  IF k > Len(s) \/ s[k] # Q THEN PFail
        ELSE LET key == ParseString(s, k)
             IN  IF ~key.ok THEN PFail
                 ELSE LET c == SkipWs(s, key.p)
                      IN  IF c > Len(s) \/ s[c] # ":" THEN PFail
                          ELSE LET val == ParseValue(s, c + 1)
                               IN  IF ~val.ok THEN PFail
                                   ELSE LET n == SkipWs(s, val.p)
                                            got == Append(ms, <<key.v.v, val.v>>)
                                        IN  IF n > Len(s) THEN PFail
                                            ELSE IF s[n] = "," THEN ParseMembers(s, n + 1, got)
                                            ELSE IF s[n] = "}" THEN POk(JObj(got), n + 1)
                                            ELSE PFail

\* The elements of an array, from the value expected at p; es are those read.
ParseElements(s, p, es) ==
    LET val == ParseValue(s, p)
    IN  IF ~val.ok THEN PFail
        ELSE LET n == SkipWs(s, val.p)
                 got == Append(es, val.v)
             IN  IF n > Len(s) THEN PFail
                 ELSE IF s[n] = "," THEN ParseElements(s, n + 1, got)
                 ELSE IF s[n] = "]" THEN POk(JArr(got), n + 1)
                 ELSE PFail

\* One JSON value starting at or after p.
ParseValue(s, p) ==
    LET b == SkipWs(s, p)
    IN  IF b > Len(s) THEN PFail
        ELSE IF s[b] = "{"
             THEN LET n == SkipWs(s, b + 1)
                  IN  IF n <= Len(s) /\ s[n] = "}" THEN POk(JObj(<<>>), n + 1)
                      ELSE ParseMembers(s, b + 1, <<>>)
        ELSE IF s[b] = "["
             THEN LET n == SkipWs(s, b + 1)
                  IN  IF n <= Len(s) /\ s[n] = "]" THEN POk(JArr(<<>>), n + 1)
                      ELSE ParseElements(s, b + 1, <<>>)
        ELSE IF s[b] = Q THEN ParseString(s, b)
        ELSE IF s[b] \in Digits
             THEN LET e == SkipDigits(s, b) IN POk(JNum(SubSeq(s, b, e - 1)), e)
        ELSE IF b + 3 <= Len(s) /\ SubSeq(s, b, b + 3) = <<"n", "u", "l", "l">>
             THEN POk(JNull, b + 4)
        ELSE PFail

\* JSON.parse(raw): [ok |-> TRUE, v |-> value], or ok = FALSE for a SyntaxError.
JSON_parse(raw) ==
    LET r == ParseValue(raw, 1)
    IN  IF r.ok /\ SkipWs(raw, r.p) = Len(raw) + 1
        THEN [ok |-> TRUE, v |-> r.v]
        ELSE [ok |-> FALSE, v |-> JNull]

\* v[name] of a JavaScript value: the last member of that name of an object,
\* undefined otherwise.
Prop(v, name) ==
    IF v.t # "obj" THEN Undefined
    ELSE LET hits == {i \in 1..Len(v.v) : v.v[i][1] = name}
         IN  IF hits = {} THEN Undefined
             ELSE v.v[CHOOSE i \in hits : \A j \in hits : i >= j][2]

\* es.filter((k) => typeof k === "string")
RECURSIVE FilterStrings(_)
FilterStrings(es) ==
    IF es = <<>> THEN <<>>
    ELSE IF Head(es).t = "str" THEN <<Head(es)>> \o FilterStrings(Tail(es))
    ELSE FilterStrings(Tail(es))

isRecord(v) == v.t \in {"obj", "arr"}

\* extractJson with indexOf for lastIndexOf: up to the first "}".
extractJsonFirstCloser(raw) ==
    LET s == IndexOf(raw, "{")
        e == IndexOf(raw, "}")
    IN  IF s < 0 \/ e <= s THEN [ok |-> FALSE, v |-> <<>>]
        ELSE [ok |-> TRUE, v |-> SliceStr(raw, s, e + 1)]

extractJson(raw) ==
    LET s == IndexOf(raw, "{")
        e == LastIndexOf(raw, "}")
    IN  IF s < 0 \/ e <= s THEN [ok |-> FALSE, v |-> <<>>]
        ELSE [ok |-> TRUE, v |-> SliceStr(raw, s, e + 1)]

DefaultKeywords == <<JStr(S_summary), JStr(S_document), JStr(S_analysis)>>

NoSummary == [ok |-> FALSE, title |-> Undefined, summary |-> <<>>, keywords |-> <<>>]

\* normalizeSummary without the fallback of line 146.
normalizeSummaryNoDefault(v) ==
    IF ~isRecord(v) THEN NoSummary
    ELSE IF Prop(v, S_summary).t # "str" THEN NoSummary
    ELSE LET title == IF Prop(v, S_title).t = "str" THEN Prop(v, S_title) ELSE Undefined
             kw == IF Prop(v, S_keywords).t = "arr"
                   THEN FilterStrings(Prop(v, S_keywords).v)
                   ELSE <<>>
         IN  [ok |-> TRUE, title |-> title, summary |-> Prop(v, S_summary).v,
              keywords |-> kw]

\* normalizeSummary without the typeof check of line 138.
normalizeSummaryAnySummary(v) ==
    IF ~isRecord(v) THEN NoSummary
    ELSE LET title == IF Prop(v, S_title).t = "str" THEN Prop(v, S_title) ELSE Undefined
             kw == IF Prop(v, S_keywords).t = "arr"
                   THEN FilterStrings(Prop(v, S_keywords).v)
                   ELSE <<>>
             keywords == IF Len(kw) = 0 THEN DefaultKeywords ELSE kw
         IN  [ok |-> TRUE, title |-> title, summary |-> Prop(v, S_summary).v,
              keywords |-> keywords]

normalizeSummary(v) ==
    IF ~isRecord(v) THEN NoSummary
    ELSE IF Prop(v, S_summary).t # "str" THEN NoSummary
    ELSE LET title == IF Prop(v, S_title).t = "str" THEN Prop(v, S_title) ELSE Undefined
             kw == IF Prop(v, S_keywords).t = "arr"
                   THEN FilterStrings(Prop(v, S_keywords).v)
                   ELSE <<>>
             keywords == IF Len(kw) = 0 THEN DefaultKeywords ELSE kw
         IN  [ok |-> TRUE, title |-> title, summary |-> Prop(v, S_summary).v,
              keywords |-> keywords]

parseSummary(raw) ==
    LET direct == JSON_parse(raw)
    IN  IF direct.ok THEN normalizeSummary(direct.v)
        ELSE LET sliced == extractJson(raw)
             IN  IF ~sliced.ok \/ sliced.v = <<>> THEN NoSummary
                 ELSE LET again == JSON_parse(sliced.v)
                      IN  IF again.ok THEN normalizeSummary(again.v) ELSE NoSummary

(***************************************************************************)
(* The raw texts the generative model is taken to answer with.             *)
(***************************************************************************)
Quote(s) == <<Q>> \o s \o <<Q>>
KV(k, text) == Quote(k) \o <<":">> \o text
Braces(body) == <<"{">> \o body \o <<"}">>

SummaryS == KV(S_summary, Quote(<<"s">>))
KeywordsAB == KV(S_keywords, <<"[">> \o Quote(<<"a">>) \o <<",">> \o Quote(<<"b">>) \o <<"]">>)

\* {"summary":"s","keywords":["a","b"]}
RawOk == Braces(SummaryS \o <<",">> \o KeywordsAB)
\* {"title":"T","summary":"s","keywords":["a","b"]}
RawTitled == Braces(KV(S_title, Quote(<<"T">>)) \o <<",">> \o SummaryS \o <<",">> \o KeywordsAB)
\* {"summary":"s","keywords":[]}
RawEmptyKeywords == Braces(SummaryS \o <<",">> \o KV(S_keywords, <<"[", "]">>))
\* {"summary":"s","keywords":7}
RawKeywordsNotArray == Braces(SummaryS \o <<",">> \o KV(S_keywords, <<"7">>))
\* {"summary":"s","keywords":[7,null]}
RawKeywordsNoString == Braces(SummaryS \o <<",">>
                              \o KV(S_keywords, <<"[", "7", ",", "n", "u", "l", "l", "]">>))
\* {"summary":"s","keywords":[7,"b"]}
RawKeywordsMixed == Braces(SummaryS \o <<",">>
                           \o KV(S_keywords, <<"[", "7", ",">> \o Quote(<<"b">>) \o <<"]">>))
\* {"summary":"s"}
RawNoKeywords == Braces(SummaryS)
\* {"summary":"s","keywords":["7"]}
RawKeywordsDigit == Braces(SummaryS \o <<",">> \o KV(S_keywords, <<"[">> \o Quote(<<"7">>) \o <<"]">>))
\* Here: {"summary":"s","keywords":["a","b"]} ok
RawWrapped == <<"H", "e", "r", "e", ":", " ">> \o RawOk \o <<" ", "o", "k">>
\* {"keywords":["a","b"]}
RawNoSummaryField == Braces(KeywordsAB)
\* {"summary":7,"keywords":["a","b"]}
RawSummaryNotString == Braces(KV(S_summary, <<"7">>) \o <<",">> \o KeywordsAB)
\* ["a"]
RawArray == <<"[">> \o Quote(<<"a">>) \o <<"]">>
\* } no json {
RawBackwards == <<"}", " ", "n", "o", " ", "{">>
\* the empty answer
RawEmpty == <<>>
\* {"summary":"s","keywords":["a","b"]} }
RawTrailingBrace == RawOk \o <<" ", "}">>
\* s}
RawNoOpener == <<"s", "}">>
\* no
RawNoBraces == <<"n", "o">>

\* {"title":"tt...t","summary":"s","keywords":["a","b"]}, the title n long
RawTitleOf(n) ==
    Braces(KV(S_title, Quote(Rep("t", n))) \o <<",">> \o SummaryS \o <<",">> \o KeywordsAB)
\* {"title":7,"summary":"s","keywords":["a","b"]}
RawTitleNotString == Braces(KV(S_title, <<"7">>) \o <<",">> \o SummaryS \o <<",">> \o KeywordsAB)

\* An object with text around it: nothing, prose, or the brackets of an array.
Surrounded(pre, obj, suf) == pre \o obj \o suf
ProsePrefixes == {<<>>, <<"H", "e", "r", "e", ":", " ">>, <<"[">>}
ProseSuffixes == {<<>>, <<" ", "o", "k">>, <<"]">>}
EmbeddedObjects == {RawOk, RawTitled, RawEmptyKeywords}

(***************************************************************************)
(* Long strings (PDF text), run-length encoded: a sequence of runs         *)
(* [c |-> character, n |-> count], n > 0, adjacent runs of different c.    *)
(***************************************************************************)
Run(c, n) == [c |-> c, n |-> n]

Blanks == {" ", "\n"}

RECURSIVE LenText(_)
LenText(t) == IF t = <<>> THEN 0 ELSE Head(t).n + LenText(Tail(t))

\* Concatenation, joining the runs that meet when they hold the same character.
ConcatText(a, b) ==
    IF a = <<>> THEN b
    ELSE IF b = <<>> THEN a
    ELSE IF a[Len(a)].c = b[1].c
         THEN SubSeq(a, 1, Len(a) - 1) \o <<Run(b[1].c, a[Len(a)].n + b[1].n)>> \o Tail(b)
    ELSE a \o b

\* String.prototype.slice(a, b) for b >= 0: characters a .. b-1.
RECURSIVE SliceText(_, _, _)
SliceText(t, a, b) ==
    IF t = <<>> \/ b <= 0 THEN <<>>
    ELSE LET h == Head(t)
             lo == Max(a, 0)
             hi == Min(b, h.n)
             part == IF hi > lo THEN <<Run(h.c, hi - lo)>> ELSE <<>>
         IN  part \o SliceText(Tail(t), a - h.n, b - h.n)

RECURSIVE TrimLeft(_)
TrimLeft(t) == IF t # <<>> /\ Head(t).c \in Blanks THEN TrimLeft(Tail(t)) ELSE t

RECURSIVE TrimRight(_)
TrimRight(t) ==
    IF t # <<>> /\ t[Len(t)].c \in Blanks THEN TrimRight(SubSeq(t, 1, Len(t) - 1)) ELSE t

\* String.prototype.trim().
TrimText(t) == TrimRight(TrimLeft(t))

\* replace(/\s+/g, " "): every maximal run of blanks becomes one space.
RECURSIVE CollapseBlanks(_)
CollapseBlanks(t) ==
    IF t = <<>> THEN <<>>
    ELSE IF Head(t).c \in Blanks
         THEN ConcatText(<<Run(" ", 1)>>, CollapseBlanks(TrimLeft(t)))
    ELSE <<Head(t)>> \o CollapseBlanks(Tail(t))

\* texts.join(" ")
RECURSIVE JoinText(_)
JoinText(texts) ==
    IF texts = <<>> THEN <<>>
    ELSE IF Len(texts) = 1 THEN texts[1]
    ELSE ConcatText(ConcatText(texts[1], <<Run(" ", 1)>>), JoinText(Tail(texts)))

ChunkSize == 9000

RECURSIVE ChunkLoop(_, _, _, _)
ChunkLoop(t, i, chunkSize, out) ==
    IF i < LenText(t)
    THEN ChunkLoop(t, i + chunkSize, chunkSize, Append(out, SliceText(t, i, i + chunkSize)))
    ELSE out

\* chunkText with the loop test i <= t.length.
RECURSIVE ChunkLoopInclusive(_, _, _, _)
ChunkLoopInclusive(t, i, chunkSize, out) ==
    IF i <= LenText(t)
    THEN ChunkLoopInclusive(t, i + chunkSize, chunkSize,
                            Append(out, SliceText(t, i, i + chunkSize)))
    ELSE out

chunkTextInclusive(s, chunkSize) ==
    LET t == TrimText(s)
    IN  IF t = <<>> THEN <<>> ELSE ChunkLoopInclusive(t, 0, chunkSize, <<>>)

\* chunkText without the trim of line 213.
chunkTextNoTrim(s, chunkSize) ==
    IF s = <<>> THEN <<>> ELSE ChunkLoop(s, 0, chunkSize, <<>>)

chunkText(s, chunkSize) ==
    LET t == TrimText(s)
    IN  IF t = <<>> THEN <<>> ELSE ChunkLoop(t, 0, chunkSize, <<>>)

(***************************************************************************)
(* The inputs of a request.                                                *)
(***************************************************************************)
MaxImages == 5
MaxRows == 1
MaxStoreRows == 2

UserIds == {"u1", "u2"}
NoUser == "none"
Callers == UserIds \cup {NoUser}

\* An uploaded PDF, by what the libraries find in it: pages (the text items
\* of each page), readable (pdfjs opens it), sharpPages (the page count of
\* sharp's metadata: -1 metadata() throws, 0 no count) and renderable (sharp
\* renders its pages).
Pdf(pages, readable, sharpPages, renderable) ==
    [pages |-> pages, readable |-> readable, sharpPages |-> sharpPages,
     renderable |-> renderable]

Body ==
    <<Run("a", 7000), Run("b", 7000), Run("c", 7000), Run("d", 7000), Run("e", 7000),
      Run("f", 7000)>>

\* A one-page PDF whose text layer is one item of n characters.
Doc(n) == Pdf(<< <<SliceText(Body, 0, n)>> >>, TRUE, 1, TRUE)

TextLens == {5, 9999, 10000, 12000, 12001, 15000, 18000, 18001, 39999, 40000, 40001}

\* Two pages, with an empty item, blanks inside the items and an empty page.
DocBlanks ==
    Pdf(<< << <<Run("a", 2)>>, <<>>, <<Run(" ", 1), Run("c", 1), Run(" ", 1)>> >>, <<>> >>,
        TRUE, 2, TRUE)

\* PDFs without a text layer, and one pdfjs cannot open.
ScannedPdfs ==
    {Pdf(<< <<>> >>, TRUE, n, TRUE) : n \in {-1, 0, 1, 3}}
        \cup {Pdf(<< <<>> >>, TRUE, 1, FALSE), Pdf(<< <<>> >>, FALSE, 1, TRUE),
              Pdf(<< << <<Run(" ", 2)>> >> >>, TRUE, 1, TRUE)}

Pdfs == {Doc(n) : n \in TextLens} \cup {DocBlanks} \cup ScannedPdfs

\* An uploaded image: its place in the upload and whether sharp decodes it.
Img(k, decodable) == [id |-> k, decodable |-> decodable]

ImageLists ==
    {[k \in 1..n |-> Img(k, TRUE)] : n \in 0..MaxImages}
        \cup {<<Img(1, FALSE)>>, [k \in 1..MaxImages |-> Img(k, k < MaxImages)]}

\* The multipart form: parses (req.formData() resolves), the pdf field and
\* the images fields.
Form(parses, hasPdf, pdf, images) ==
    [parses |-> parses, hasPdf |-> hasPdf, pdf |-> pdf, images |-> images]

Forms ==
    {Form(TRUE, FALSE, Doc(5), imgs) : imgs \in ImageLists}
        \cup {Form(TRUE, TRUE, pdf, imgs) : pdf \in Pdfs, imgs \in ImageLists}
        \cup {Form(FALSE, FALSE, Doc(5), <<>>)}

(***************************************************************************)
(* Text Extractor, Page Rasterizer, Image Normalizer.                      *)
(***************************************************************************)
NonEmpty(item) == item # <<>>

\* texts: the non-empty items of each page, each page followed by "\n".
RECURSIVE PageTexts(_)
PageTexts(pages) ==
    IF pages = <<>> THEN <<>>
    ELSE SelectSeq(Head(pages), NonEmpty) \o << <<Run("\n", 1)>> >> \o PageTexts(Tail(pages))

parsePdfToText(pdf, pdfjsLoads) ==
    IF ~pdfjsLoads THEN [threw |-> TRUE, text |-> <<>>]
    ELSE IF ~pdf.readable THEN [threw |-> TRUE, text |-> <<>>]
    ELSE [threw |-> FALSE,
          text |-> TrimText(CollapseBlanks(JoinText(PageTexts(pdf.pages))))]

JpegPart(origin, k) == [mimeType |-> "image/jpeg", data |-> <<origin, k>>]

compressImageToJpegBase64(img) ==
    [threw |-> ~img.decodable, part |-> JpegPart("upload", img.id)]

RasterMaxPages == 2

\* pdfBufferToJpegPagesBase64 with the page render failing silently: a blank
\* page is pushed where sharp would have thrown.
pdfBufferToJpegPagesBase64Blank(pdf, maxPages) ==
    LET totalPages == IF pdf.sharpPages > 0 THEN pdf.sharpPages ELSE 1
        pagesToRender == Min(totalPages, maxPages)
    IN  [threw |-> FALSE, pages |-> [i \in 1..pagesToRender |-> JpegPart("page", i - 1)]]

pdfBufferToJpegPagesBase64(pdf, maxPages) ==
    LET totalPages == IF pdf.sharpPages > 0 THEN pdf.sharpPages ELSE 1
        pagesToRender == Min(totalPages, maxPages)
    IN  IF pagesToRender > 0 /\ ~pdf.renderable THEN [threw |-> TRUE, pages |-> <<>>]
        ELSE [threw |-> FALSE, pages |-> [i \in 1..pagesToRender |-> JpegPart("page", i - 1)]]

(***************************************************************************)
(* State.                                                                  *)
(*   apiKey     process.env.GEMINI_API_KEY is set                          *)
(*   users      the User table: rows [id, createdAt]                       *)
(*   summaries  the Summary table: rows [id, userId, source, title,        *)
(*              summary, keywords, imageCount, createdAt]; the columns     *)
(*              inputText and pdfName are written and never read back by   *)
(*              a condition, and are left out                              *)
(*   nextId     the next Summary id the datastore hands out                *)
(*   now        the datastore's clock (CURRENT_TIMESTAMP)                  *)
(*   req        the POST /api/summarize request being handled              *)
(*   resp       the response sent by the last step, if it sent one         *)
(*   client     the page's call of fetchWithRetry: where it stands, the    *)
(*              loop index i, what each fetch ended with and how long it   *)
(*              slept after it                                             *)
(*   page       the state of the page component (src/app/layout.tsx): its   *)
(*              useState cells and the asynchronous work it has started     *)
(*   unit       a helper function called on its own: its name, its          *)
(*              arguments and what it returned                              *)
(***************************************************************************)
VARIABLES apiKey, users, summaries, nextId, now, req, resp, client, page, unit

vars == <<apiKey, users, summaries, nextId, now, req, resp, client, page, unit>>

Idle ==
    [pc |-> "idle", pending |-> FALSE, userId |-> NoUser, hasPdf |-> FALSE,
     pdfText |-> <<>>, images |-> <<>>, autoPdfImages |-> <<>>, rasterTried |-> FALSE,
     renderable |-> TRUE, pdfjsLoads |-> TRUE,
     summaryLength |-> "", parts |-> <<>>, chunks |-> <<>>, partialJsons |-> <<>>,
     calls |-> <<>>, raw |-> <<>>]

NoBody == [ok |-> "absent", success |-> FALSE, error |-> "", raw |-> <<>>, data |-> <<>>]

NoInput ==
    [parses |-> TRUE, hasPdf |-> FALSE, images |-> 0, noText |-> FALSE,
     rasterTried |-> FALSE, renderable |-> TRUE, pdfjsLoads |-> TRUE, id |-> 0]

\* resp: endpoint and caller say which request was answered; input holds what
\* it carried (POST: whether the form parses, has a pdf field, how many images
\* fields, whether sharp can render the PDF's pages; DELETE: id) and, for a
\* POST with a PDF, whether extraction ran and found no text, whether
\* pdfBufferToJpegPagesBase64 was called and whether the import of pdfjs-dist
\* resolved to the library.
NoResp == [endpoint |-> "none", caller |-> NoUser, input |-> NoInput, status |-> 0,
           body |-> NoBody]

Response(endpoint, caller, input, status, body) ==
    [endpoint |-> endpoint, caller |-> caller, input |-> input, status |-> status,
     body |-> body]

ErrorBody(msg) == [NoBody EXCEPT !.ok = "false", !.error = msg]

PostInput(form, noText, rasterTried, pdfjsLoads) ==
    [parses |-> form.parses, hasPdf |-> form.hasPdf, images |-> Len(form.images),
     noText |-> noText, rasterTried |-> rasterTried,
     renderable |-> form.pdf.renderable, pdfjsLoads |-> pdfjsLoads, id |-> 0]

InputOf(r) ==
    [parses |-> TRUE, hasPdf |-> r.hasPdf, images |-> Len(r.images),
     noText |-> r.hasPdf /\ r.pdfText = <<>>, rasterTried |-> r.rasterTried,
     renderable |-> r.renderable, pdfjsLoads |-> r.pdfjsLoads, id |-> 0]

NoOutcome == [kind |-> "none", status |-> 0]

ClientIdle ==
    [pc |-> "idle", i |-> 0, attempts |-> 0, outcomes |-> <<>>, waits |-> <<>>,
     result |-> NoOutcome]

\* No file selected in an <input type="file">.
NoFile == [name |-> "none"]

\* handleSummarize (its FormData and the response it got) and clearHistoryDb
\* when they are not running.
NoSubmit == [pc |-> "idle", hasPdf |-> FALSE, pdf |-> NoFile, images |-> <<>>, res |-> NoResp]
NoClear == [pc |-> "idle", items |-> <<>>, k |-> 0]

\* The page after its first render: the useState cells (summary and fileKey
\* are written and never read by a condition, and are left out), the
\* pdfToImages calls under way (conversions: the PDF each was started for and
\* the alive flag of its effect), where handleSummarize (submit) and
\* clearHistoryDb (clear) stand, how many times handleSummarize has called
\* fetchWithRetry (submits) and whether the fetch of refreshHistory is under
\* way (refreshing), after the effect of the first render has run (mounted).
PageInit ==
    [pdf |-> NoFile, images |-> <<>>, pdfImages |-> <<>>, pdfConvertStatus |-> "",
     status |-> "", loading |-> FALSE, history |-> <<>>,
     conversions |-> {}, submit |-> NoSubmit, clear |-> NoClear, submits |-> 0,
     refreshing |-> FALSE, mounted |-> FALSE]

\* No helper called yet.
NoCall == [fn |-> "none", args |-> <<>>, out |-> <<>>]

Init ==
    /\ client = ClientIdle
    /\ page = PageInit
    /\ unit = NoCall
    /\ apiKey \in BOOLEAN
    /\ users = {}
    /\ summaries = {}
    /\ nextId = 1
    /\ now = 0
    /\ req = Idle
    /\ resp = NoResp

(***************************************************************************)
(* Datastore operations.                                                   *)
(***************************************************************************)
\* prisma.user.upsert({where: {id}, update: {}, create: {id}})
\* ensureUserRow as a delete and insert: an existing row is written anew.
ensureUserRowReplace(us, userId, t) ==
    {r \in us : r.id # userId} \cup {[id |-> userId, createdAt |-> t]}

ensureUserRow(us, userId, t) ==
    IF \E r \in us : r.id = userId THEN us
    ELSE us \cup {[id |-> userId, createdAt |-> t]}

toDbSource(source) ==
    IF source = "pdf" THEN "pdf"
    ELSE IF source = "image" THEN "image"
    ELSE "pdf_image"

toApiSource(source) == IF source = "pdf_image" THEN "pdf+image" ELSE source

\* The keywords column as read back: always an array here.
normalizeKeywordsFromJson(v) == FilterStrings(v)

(***************************************************************************)
(* POST /api/summarize.                                                    *)
(***************************************************************************)
LongTextThreshold == 12000
MaxAttached == 4

\* summaryLength with the long band above 40000 characters only.
SummaryLengthForAbove(pdfText) ==
    IF pdfText # <<>> /\ LenText(pdfText) > 0
    THEN IF LenText(pdfText) < 10000 THEN "16-22"
         ELSE IF LenText(pdfText) <= 40000 THEN "24-34"
         ELSE "34-45"
    ELSE "18-24"

SummaryLengthFor(pdfText) ==
    IF pdfText # <<>> /\ LenText(pdfText) > 0
    THEN IF LenText(pdfText) < 10000 THEN "16-22"
         ELSE IF LenText(pdfText) < 40000 THEN "24-34"
         ELSE "34-45"
    ELSE "18-24"

\* The slice of lines 382 and 387 left out.
AttachedAll(images) == images

\* images.slice(0, 4), autoPdfImages.slice(0, 4)
Attached(images) == SliceStr(images, 0, MaxAttached)

RECURSIVE CompressAll(_)
CompressAll(imgs) ==
    IF imgs = <<>> THEN [threw |-> FALSE, parts |-> <<>>]
    ELSE LET h == compressImageToJpegBase64(Head(imgs))
             rest == CompressAll(Tail(imgs))
         IN  IF h.threw \/ rest.threw THEN [threw |-> TRUE, parts |-> <<>>]
             ELSE [threw |-> FALSE, parts |-> <<h.part>> \o rest.parts]

\* The test of line 369 with >= for >.
TakesChunkPathAtThreshold(pdfText, hasAnyImages) ==
    pdfText # <<>> /\ LenText(pdfText) >= LongTextThreshold /\ ~hasAnyImages

\* The test of line 312 left out.
IsEmptyFormNever(form) == FALSE

\* Line 312: neither a pdf field nor an images field.
IsEmptyForm(form) == ~form.hasPdf /\ Len(form.images) = 0

\* Which summarization the request takes: lines 366-371.
TakesChunkPath(pdfText, hasAnyImages) ==
    pdfText # <<>> /\ LenText(pdfText) > LongTextThreshold /\ ~hasAnyImages

\* Lines 295-389: everything up to the first model call.
PostStart(caller, form, pdfjsLoads) ==
    /\ req.pc = "idle"
    /\ LET extracted == parsePdfToText(form.pdf, pdfjsLoads)
           pdfText == IF form.hasPdf /\ ~extracted.threw THEN extracted.text ELSE <<>>
           summaryLength == SummaryLengthFor(pdfText)
           rasterize == form.hasPdf /\ LenText(TrimText(pdfText)) = 0 /\ Len(form.images) = 0
           raster == pdfBufferToJpegPagesBase64(form.pdf, RasterMaxPages)
           autoPdfImages == IF rasterize /\ ~raster.threw THEN raster.pages ELSE <<>>
           hasAnyImages == Len(form.images) > 0 \/ Len(autoPdfImages) > 0
           compressed == CompressAll(Attached(form.images))
           early(status, msg) ==
               Response("POST", caller, PostInput(form, FALSE, FALSE, pdfjsLoads), status,
                        ErrorBody(msg))
           reply(status, msg) ==
               Response("POST", caller,
                        PostInput(form, form.hasPdf /\ pdfText = <<>>, rasterize,
                                  pdfjsLoads),
                        status, ErrorBody(msg))
           started == [Idle EXCEPT !.userId = caller, !.hasPdf = form.hasPdf,
                                   !.pdfText = pdfText, !.images = form.images,
                                   !.autoPdfImages = autoPdfImages,
                                   !.rasterTried = rasterize,
                                   !.renderable = form.pdf.renderable,
                                   !.pdfjsLoads = pdfjsLoads,
                                   !.summaryLength = summaryLength]
       IN  IF ~apiKey
           THEN /\ resp' = early(500, "GEMINI_API_KEY yok (.env.local).")
                /\ UNCHANGED <<users, req>>
           ELSE IF caller = NoUser
           THEN /\ resp' = early(401, "Unauthorized")
                /\ UNCHANGED <<users, req>>
           ELSE /\ users' = ensureUserRow(users, caller, now)
                /\ IF ~form.parses
                   THEN /\ resp' = early(500, "Failed to parse body as FormData.")
                        /\ UNCHANGED req
                   ELSE IF IsEmptyForm(form)
                   THEN /\ resp' = early(400, "PDF veya en az 1 gorsel yukle.")
                        /\ UNCHANGED req
                   ELSE IF rasterize /\ ~raster.threw /\ Len(autoPdfImages) = 0
                   THEN /\ resp' = reply(400, "Bu PDF taranmis (text layer yok) ve otomatik gorsel cikarma basarisiz oldu.")
                        /\ UNCHANGED req
                   ELSE IF rasterize /\ raster.threw
                   THEN /\ resp' = reply(400, "Bu PDF taranmis (text layer yok). Otomatik sayfa gorseli cikarilamadi.")
                        /\ UNCHANGED req
                   ELSE IF TakesChunkPath(pdfText, hasAnyImages)
                   THEN IF Len(chunkText(pdfText, ChunkSize)) = 0
                        THEN /\ resp' = reply(500, "PDF metni bos.")
                             /\ UNCHANGED req
                        ELSE /\ req' = [started EXCEPT !.pc = "chunk",
                                                       !.chunks = chunkText(pdfText, ChunkSize)]
                             /\ resp' = NoResp
                   ELSE IF compressed.threw
                   THEN /\ resp' = reply(500, "Input buffer contains unsupported image format")
                        /\ UNCHANGED req
                   ELSE /\ req' = [started EXCEPT
                                       !.pc = "single",
                                       !.parts = compressed.parts
                                                 \o Attached(autoPdfImages)]
                        /\ resp' = NoResp
    /\ UNCHANGED <<page, unit, client, apiKey, summaries, nextId, now>>

\* One call of ai.models.generateContent, as the log keeps it: what was sent
\* (text, images, partials, the length guidance) and how it ended.
Call(kind, text, images, partials, summaryLength) ==
    [kind |-> kind, text |-> text, images |-> images, partials |-> partials,
     summaryLength |-> summaryLength, out |-> "pending", res |-> <<>>]

\* geminiSummarizeTextChunkAcademic(chunks[i]), up to its await.
IssueChunk ==
    /\ req.pc = "chunk" /\ ~req.pending
    /\ LET i == Len(req.partialJsons)
       IN  req' = [req EXCEPT !.pending = TRUE,
                              !.calls = Append(@, Call("chunk", req.chunks[i + 1], <<>>,
                                                        <<>>, ""))]
    /\ resp' = NoResp
    /\ UNCHANGED <<page, unit, client, apiKey, users, summaries, nextId, now>>

\* geminiFinalSummaryAcademic(partialJsons.join("\n\n"), summaryLength), up to
\* its await.
IssueMerge ==
    /\ req.pc = "merge" /\ ~req.pending
    /\ req' = [req EXCEPT !.pending = TRUE,
                          !.calls = Append(@, Call("merge", <<>>, <<>>, req.partialJsons,
                                                    req.summaryLength))]
    /\ resp' = NoResp
    /\ UNCHANGED <<page, unit, client, apiKey, users, summaries, nextId, now>>

\* IssueSingle without the inlineData parts of lines 382-389.
IssueSingleNoParts ==
    /\ req.pc = "single" /\ ~req.pending
    /\ req' = [req EXCEPT !.pending = TRUE,
                          !.calls = Append(@, Call("single",
                                                    SliceText(req.pdfText, 0, LongTextThreshold),
                                                    <<>>, <<>>, req.summaryLength))]
    /\ resp' = NoResp
    /\ UNCHANGED <<page, unit, client, apiKey, users, summaries, nextId, now>>

\* Lines 372-394: the one call of the direct path, up to its await.
IssueSingle ==
    /\ req.pc = "single" /\ ~req.pending
    /\ req' = [req EXCEPT !.pending = TRUE,
                          !.calls = Append(@, Call("single",
                                                    SliceText(req.pdfText, 0, LongTextThreshold),
                                                    req.parts, <<>>, req.summaryLength))]
    /\ resp' = NoResp
    /\ UNCHANGED <<page, unit, client, apiKey, users, summaries, nextId, now>>

PendingKind == IF req.pending THEN req.calls[Len(req.calls)].kind ELSE "none"

\* ModelReturns with partialJsons.unshift for push.
ModelReturnsUnshift(raw) ==
    /\ req.pending
    /\ LET n == Len(req.calls)
           logged == [req EXCEPT !.pending = FALSE, !.calls[n].out = "returned",
                                 !.calls[n].res = raw]
           i == Len(req.partialJsons)
           pushed == <<[label |-> i + 1, raw |-> raw]>> \o req.partialJsons
       IN  IF req.calls[n].kind = "chunk"
           THEN req' = [logged EXCEPT !.partialJsons = pushed,
                                      !.pc = IF i + 1 < Len(req.chunks) THEN "chunk"
                                             ELSE "merge"]
           ELSE req' = [logged EXCEPT !.raw = raw, !.pc = "parse"]
    /\ resp' = NoResp
    /\ UNCHANGED <<page, unit, client, apiKey, users, summaries, nextId, now>>

\* The pending call resolves with the text raw; the handler runs on to its
\* next await.
ModelReturns(raw) ==
    /\ req.pending
    /\ LET n == Len(req.calls)
           logged == [req EXCEPT !.pending = FALSE, !.calls[n].out = "returned",
                                 !.calls[n].res = raw]
           i == Len(req.partialJsons)
           pushed == Append(req.partialJsons, [label |-> i + 1, raw |-> raw])
       IN  IF req.calls[n].kind = "chunk"
           THEN req' = [logged EXCEPT !.partialJsons = pushed,
                                      !.pc = IF i + 1 < Len(req.chunks) THEN "chunk"
                                             ELSE "merge"]
           ELSE req' = [logged EXCEPT !.raw = raw, !.pc = "parse"]
    /\ resp' = NoResp
    /\ UNCHANGED <<page, unit, client, apiKey, users, summaries, nextId, now>>

\* The pending call rejects; the catch of lines 439-446 answers.
ModelThrows(message) ==
    /\ req.pending
    /\ resp' = Response("POST", req.userId, InputOf(req), 500, ErrorBody(message))
    /\ req' = Idle
    /\ UNCHANGED <<page, unit, client, apiKey, users, summaries, nextId, now>>

DefaultTitle == <<"A", "k", "a", "d", "e", "m", "i", "k", " ", "O", "z", "e", "t">>
TitleMax == 140
ExcerptMax == 300

\* TitleFor without the slice of line 412.
TitleForUncut(parsed) ==
    LET whole == IF parsed.title.t = "str" THEN parsed.title.v ELSE <<>>
    IN  IF whole = <<>> THEN DefaultTitle ELSE whole

\* parsed.title?.slice(0, 140) || "Akademik Ozet"
TitleFor(parsed) ==
    LET cut == IF parsed.title.t = "str" THEN SliceStr(parsed.title.v, 0, TitleMax) ELSE <<>>
    IN  IF cut = <<>> THEN DefaultTitle ELSE cut

\* sourceUI without the pdf+image case.
SourceForNoBoth(hasPdf, hasAnyImages) == IF hasPdf THEN "pdf" ELSE "image"

SourceFor(hasPdf, hasAnyImages) ==
    IF hasPdf /\ hasAnyImages THEN "pdf+image" ELSE IF hasPdf THEN "pdf" ELSE "image"

ImageCountFor(images, autoPdfImages) ==
    IF Len(images) > 0 THEN Len(images) ELSE Len(autoPdfImages)

\* select: the columns a response carries (every one but userId).
Selected(row) ==
    [id |-> row.id, createdAt |-> row.createdAt, source |-> row.source,
     title |-> row.title, summary |-> row.summary, keywords |-> row.keywords,
     imageCount |-> row.imageCount]

\* The message of the exception prisma.summary.create throws when userId
\* names no User row (Summary_userId_fkey).
ForeignKeyError == "Foreign key constraint violated: Summary_userId_fkey"

\* PostFinish with the insert ahead of the check of line 400.
PostFinishPersistFirst(tick) ==
    /\ req.pc = "parse"
    /\ LET parsed == parseSummary(req.raw)
           input == InputOf(req)
           hasAnyImages == Len(req.images) > 0 \/ Len(req.autoPdfImages) > 0
           sourceDB == toDbSource(SourceFor(req.hasPdf, hasAnyImages))
       IN  IF ~parsed.ok
           THEN /\ resp' = Response("POST", req.userId, input, 500,
                                    [ErrorBody("Model JSON donmedi.") EXCEPT
                                         !.raw = SliceStr(req.raw, 0, ExcerptMax)])
                /\ summaries' = summaries
                                  \cup {[id |-> nextId, userId |-> req.userId,
                                         source |-> sourceDB, title |-> DefaultTitle,
                                         summary |-> <<>>, keywords |-> DefaultKeywords,
                                         imageCount |-> 0, createdAt |-> now]}
                /\ nextId' = nextId + 1
                /\ UNCHANGED now
           ELSE LET t == now + tick
                    saved == [id |-> nextId, userId |-> req.userId, source |-> sourceDB,
                              title |-> TitleFor(parsed), summary |-> parsed.summary,
                              keywords |-> parsed.keywords,
                              imageCount |-> ImageCountFor(req.images, req.autoPdfImages),
                              createdAt |-> t]
                    data == [Selected(saved) EXCEPT
                                 !.source = toApiSource(saved.source),
                                 !.keywords = normalizeKeywordsFromJson(saved.keywords)]
                IN  /\ summaries' = summaries \cup {saved}
                    /\ nextId' = nextId + 1
                    /\ now' = t
                    /\ resp' = Response("POST", req.userId, input, 200,
                                        [NoBody EXCEPT !.ok = "true", !.data = <<data>>])
    /\ req' = Idle
    /\ UNCHANGED <<page, unit, client, apiKey, users>>

\* Lines 399-438: parse the answer, insert the row, answer.
PostFinish(tick) ==
    /\ req.pc = "parse"
    /\ LET parsed == parseSummary(req.raw)
           input == InputOf(req)
           hasAnyImages == Len(req.images) > 0 \/ Len(req.autoPdfImages) > 0
           sourceDB == toDbSource(SourceFor(req.hasPdf, hasAnyImages))
       IN  IF ~parsed.ok
           THEN /\ resp' = Response("POST", req.userId, input, 500,
                                    [ErrorBody("Model JSON donmedi.") EXCEPT
                                         !.raw = SliceStr(req.raw, 0, ExcerptMax)])
                /\ UNCHANGED <<summaries, nextId, now>>
           ELSE IF \A u \in users : u.id # req.userId
           THEN /\ resp' = Response("POST", req.userId, input, 500, ErrorBody(ForeignKeyError))
                /\ UNCHANGED <<summaries, nextId, now>>
           ELSE LET t == now + tick
                    saved == [id |-> nextId, userId |-> req.userId, source |-> sourceDB,
                              title |-> TitleFor(parsed), summary |-> parsed.summary,
                              keywords |-> parsed.keywords,
                              imageCount |-> ImageCountFor(req.images, req.autoPdfImages),
                              createdAt |-> t]
                    data == [Selected(saved) EXCEPT
                                 !.source = toApiSource(saved.source),
                                 !.keywords = normalizeKeywordsFromJson(saved.keywords)]
                IN  /\ summaries' = summaries \cup {saved}
                    /\ nextId' = nextId + 1
                    /\ now' = t
                    /\ resp' = Response("POST", req.userId, input, 200,
                                        [NoBody EXCEPT !.ok = "true", !.data = <<data>>])
    /\ req' = Idle
    /\ UNCHANGED <<page, unit, client, apiKey, users>>

(***************************************************************************)
(* GET /api/history, GET /api/summaries, DELETE /api/history/{id}.         *)
(***************************************************************************)
HistoryTake == 50
SummariesTake == 30

\* The orders of the rows S that orderBy {createdAt: "desc"} allows.
RECURSIVE Orders(_)
Orders(S) ==
    IF S = {} THEN {<<>>}
    ELSE UNION {{<<r>> \o rest : rest \in Orders(S \ {r})} : r \in S}

\* The orders of S by createdAt descending from time t down; rows of one
\* createdAt come in any order.
RECURSIVE NewestFirstFrom(_, _)
NewestFirstFrom(S, t) ==
    IF S = {} THEN {<<>>}
    ELSE LET same == {r \in S : r.createdAt = t}
         IN  {first \o rest : first \in Orders(same),
                               rest \in NewestFirstFrom(S \ same, t - 1)}

NewestFirst(S) ==
    IF S = {} THEN {<<>>}
    ELSE LET times == {r.createdAt : r \in S}
         IN  NewestFirstFrom(S, CHOOSE t \in times : \A u \in times : u <= t)

\* findMany({orderBy: {createdAt: "desc"}, take}): the owner not asked for.
findManyAnyOwner(rows, userId, take) ==
    {SubSeq(s, 1, Min(take, Len(s))) : s \in NewestFirst(rows)}

\* findMany({where: {userId}, orderBy: {createdAt: "desc"}, take})
findMany(rows, userId, take) ==
    {SubSeq(s, 1, Min(take, Len(s))) : s \in NewestFirst({r \in rows : r.userId = userId})}

SelectAll(rows) == [i \in 1..Len(rows) |-> Selected(rows[i])]

GetHistory(caller) ==
    /\ IF caller = NoUser
       THEN resp' = Response("GET /history", caller, NoInput, 401, ErrorBody("Unauthorized"))
       ELSE \E items \in findMany(summaries, caller, HistoryTake) :
                resp' = Response("GET /history", caller, NoInput, 200,
                                 [NoBody EXCEPT !.ok = "true", !.data = SelectAll(items)])
    /\ UNCHANGED <<page, unit, client, apiKey, users, summaries, nextId, now, req>>

\* String(keywords) of an array of strings: its entries joined by ",".
RECURSIVE ArrayToString(_)
ArrayToString(kw) ==
    IF kw = <<>> THEN <<>>
    ELSE IF Len(kw) = 1 THEN kw[1].v
    ELSE kw[1].v \o <<",">> \o ArrayToString(Tail(kw))

\* keywords: JSON.parse(r.keywords) of line 42, on the array the column holds.
ParsedKeywords(row) == JSON_parse(ArrayToString(row.keywords))

GetSummaries(caller) ==
    /\ IF caller = NoUser
       THEN resp' = Response("GET /summaries", caller, NoInput, 401,
                             ErrorBody("Unauthorized"))
       ELSE \E rows \in findMany(summaries, caller, SummariesTake) :
                IF \E i \in 1..Len(rows) : ~ParsedKeywords(rows[i]).ok
                THEN resp' = Response("GET /summaries", caller, NoInput, 500, NoBody)
                ELSE resp' = Response("GET /summaries", caller, NoInput, 200,
                                      [NoBody EXCEPT
                                           !.ok = "true",
                                           !.data = [i \in 1..Len(rows) |->
                                                        [Selected(rows[i]) EXCEPT
                                                             !.keywords =
                                                                 ParsedKeywords(rows[i]).v]]])
    /\ UNCHANGED <<page, unit, client, apiKey, users, summaries, nextId, now, req>>

\* DELETE FROM "User" without the ON DELETE CASCADE of Summary_userId_fkey.
DeleteUserNoCascade(userId) ==
    /\ \E u \in users : u.id = userId
    /\ users' = {u \in users : u.id # userId}
    /\ UNCHANGED <<page, unit, client, apiKey, summaries, nextId, now, req, resp>>

\* A User row deleted in the datastore: Summary_userId_fkey deletes the
\* user's Summary rows with it (ON DELETE CASCADE).
DeleteUser(userId) ==
    /\ \E u \in users : u.id = userId
    /\ users' = {u \in users : u.id # userId}
    /\ summaries' = {r \in summaries : r.userId # userId}
    /\ UNCHANGED <<page, unit, client, apiKey, nextId, now, req, resp>>

\* deleteMany({where: {id}}): the owner not asked for.
deleteManyAnyOwner(rows, id, userId) == {r \in rows : r.id # id}

\* deleteMany({where: {id, userId}})
deleteMany(rows, id, userId) == {r \in rows : ~(r.id = id /\ r.userId = userId)}

Delete(caller, id) ==
    /\ LET input == [NoInput EXCEPT !.id = id]
           kept == deleteMany(summaries, id, caller)
           count == Cardinality(summaries) - Cardinality(kept)
       IN  IF caller = NoUser
           THEN /\ resp' = Response("DELETE", caller, input, 401,
                                    [NoBody EXCEPT !.error = "Unauthorized"])
                /\ UNCHANGED summaries
           ELSE /\ summaries' = kept
                /\ IF count = 0
                   THEN resp' = Response("DELETE", caller, input, 404,
                                         [NoBody EXCEPT !.error = "Not found"])
                   ELSE resp' = Response("DELETE", caller, input, 200,
                                         [NoBody EXCEPT !.success = TRUE])
    /\ UNCHANGED <<page, unit, client, apiKey, users, nextId, now, req>>

(***************************************************************************)
(* The specification of the service.                                       *)
(***************************************************************************)
\* What the model answers a chunk call with, and a merge or direct call with.
ChunkRaws == {<<"x">>, <<"y">>}

RawGarbage == Rep("z", ExcerptMax + 1)

FinalRaws ==
    {RawOk, RawTitled, RawEmptyKeywords, RawKeywordsNotArray, RawKeywordsNoString,
     RawKeywordsMixed, RawNoKeywords, RawWrapped, RawNoSummaryField, RawSummaryNotString,
     RawArray, RawBackwards, RawEmpty, RawGarbage}

ModelErrors == {"503 The model is overloaded.", "fetch failed"}

\* The clock between two inserts: it stands still or it advances.
Ticks == {0, 1}

\* The response of the last step has left the server.
ResponseSent ==
    /\ resp # NoResp
    /\ resp' = NoResp
    /\ UNCHANGED <<page, unit, client, apiKey, users, summaries, nextId, now, req>>

\* POST /api/summarize alone, over every form, for one user and anonymous
\* callers.
PipelineCallers == {"u1", NoUser}

Next ==
    \/ ResponseSent
    \/ \E caller \in PipelineCallers, form \in Forms, pdfjsLoads \in BOOLEAN :
           resp = NoResp /\ nextId <= MaxRows /\ PostStart(caller, form, pdfjsLoads)
    \/ IssueChunk
    \/ IssueMerge
    \/ IssueSingle
    \/ \E raw \in ChunkRaws : PendingKind = "chunk" /\ ModelReturns(raw)
    \/ \E raw \in FinalRaws : PendingKind \in {"merge", "single"} /\ ModelReturns(raw)
    \/ \E message \in ModelErrors : ModelThrows(message)
    \/ \E tick \in Ticks : PostFinish(tick)

Spec == Init /\ [][Next]_vars

\* The whole service (POST, both GETs, DELETE) for every caller, over a few
\* forms: empty, unparsable, one image, a long PDF (two chunks and a merge),
\* a scanned PDF that does not render, a short PDF with an image.
StoreForms ==
    {Form(TRUE, FALSE, Doc(5), <<>>), Form(FALSE, FALSE, Doc(5), <<>>),
     Form(TRUE, FALSE, Doc(5), <<Img(1, TRUE)>>), Form(TRUE, TRUE, Doc(12001), <<>>),
     Form(TRUE, TRUE, Pdf(<< <<>> >>, TRUE, 1, FALSE), <<>>),
     Form(TRUE, TRUE, Doc(5), <<Img(1, TRUE)>>)}

StoreChunkRaws == {<<"x">>}
StoreFinalRaws == {RawOk, RawGarbage}

StoreNext ==
    \/ ResponseSent
    \/ \E caller \in Callers, form \in StoreForms :
           resp = NoResp /\ nextId <= MaxStoreRows /\ PostStart(caller, form, TRUE)
    \/ IssueChunk
    \/ IssueMerge
    \/ IssueSingle
    \/ \E raw \in StoreChunkRaws : PendingKind = "chunk" /\ ModelReturns(raw)
    \/ \E raw \in StoreFinalRaws : PendingKind \in {"merge", "single"} /\ ModelReturns(raw)
    \/ \E message \in ModelErrors : ModelThrows(message)
    \/ \E tick \in Ticks : PostFinish(tick)
    \/ \E caller \in Callers : resp = NoResp /\ GetHistory(caller)
    \/ \E caller \in Callers : resp = NoResp /\ GetSummaries(caller)
    \/ \E caller \in Callers, id \in 1..nextId : resp = NoResp /\ Delete(caller, id)

SpecStore == Init /\ [][StoreNext]_vars
\* One user filling the history past both page sizes: every request is one
\* image whose summary comes back with the keyword "7". Only the first
\* BulkMixed rows may belong to the other user, share a creation time or be
\* deleted, and reads and deletes come between two requests.
MaxBulkRows == 52
BulkMixed == 2
BulkForm == Form(TRUE, FALSE, Doc(5), <<Img(1, TRUE)>>)

BulkNext ==
    \/ ResponseSent
    \/ \E caller \in UserIds :
           /\ resp = NoResp /\ nextId <= MaxBulkRows
           /\ caller # "u1" => nextId <= BulkMixed
           /\ PostStart(caller, BulkForm, TRUE)
    \/ IssueSingle
    \/ PendingKind = "single" /\ ModelReturns(RawKeywordsDigit)
    \/ \E tick \in Ticks : (nextId > BulkMixed => tick = 1) /\ PostFinish(tick)
    \/ \E caller \in UserIds : resp = NoResp /\ req.pc = "idle" /\ GetHistory(caller)
    \/ \E caller \in UserIds : resp = NoResp /\ req.pc = "idle" /\ GetSummaries(caller)
    \/ \E caller \in UserIds, id \in 1..BulkMixed :
           resp = NoResp /\ req.pc = "idle" /\ Delete(caller, id)

SpecBulk == Init /\ [][BulkNext]_vars

\* The datastore schema at work: two users writing rows while User rows are
\* deleted in the datastore, also under a request in flight.
MaxSchemaRows == 3

SchemaNext ==
    \/ ResponseSent
    \/ \E caller \in UserIds :
           resp = NoResp /\ nextId <= MaxSchemaRows /\ PostStart(caller, BulkForm, TRUE)
    \/ IssueSingle
    \/ PendingKind = "single" /\ ModelReturns(RawOk)
    \/ \E tick \in Ticks : PostFinish(tick)
    \/ \E userId \in UserIds : resp = NoResp /\ DeleteUser(userId)

SpecSchema == Init /\ [][SchemaNext]_vars

\* Titles the model may send: none, one character, and around the 140
\* characters the route keeps.
TitleLens == {0, 1, TitleMax - 1, TitleMax, TitleMax + 1, 2 * TitleMax}
TitleRaws == {RawTitleOf(n) : n \in TitleLens} \cup {RawTitleNotString}

\* The answer parser at work: one image per request, answered with an
\* object that stands alone, in prose or in brackets, with a text no object
\* can be sliced from, or with an object whose title is not a string, empty,
\* short, or as long as the route keeps and longer.
ParseRaws ==
    {Surrounded(pre, obj, suf) :
         pre \in ProsePrefixes, obj \in EmbeddedObjects, suf \in ProseSuffixes}
        \cup {RawEmpty, RawBackwards, RawTrailingBrace, RawNoOpener, RawNoBraces}
        \cup TitleRaws

ParseNext ==
    \/ ResponseSent
    \/ \E caller \in UserIds :
           resp = NoResp /\ nextId <= MaxRows /\ PostStart(caller, BulkForm, TRUE)
    \/ IssueSingle
    \/ \E raw \in ParseRaws : PendingKind = "single" /\ ModelReturns(raw)
    \/ \E tick \in Ticks : PostFinish(tick)

SpecParse == Init /\ [][ParseNext]_vars

(***************************************************************************)
(* The page: fetchWithRetry(input, init, retries).                         *)
(***************************************************************************)

\* retries: the default of the parameter, and what handleSummarize passes.
Retries == 3
BackoffOverloaded == 1200
BackoffNetwork == 800

\* What one fetch can end with: a response of some status, or an exception.
FetchStatuses == {200, 400, 401, 500, 503}
Responded(status) == [kind |-> "response", status |-> status]
NetworkFailure == [kind |-> "network", status |-> 0]

server == <<apiKey, users, summaries, nextId, now, req, resp>>

\* The call, up to the first await fetch.
CallFetchWithRetry ==
    /\ client.pc = "idle"
    /\ client' = [ClientIdle EXCEPT !.pc = "fetch"]
    /\ UNCHANGED <<server, page, unit>>

\* Lines 104-112, after await fetch resolved: a 503 before the last round
\* sleeps, anything else is returned.
AfterResponse(c, status, retries) ==
    LET got == [c EXCEPT !.attempts = @ + 1, !.outcomes = Append(@, Responded(status))]
    IN  IF status = 503 /\ c.i < retries
        THEN [got EXCEPT !.pc = "sleep", !.waits = Append(@, BackoffOverloaded * 2 ^ c.i)]
        ELSE [got EXCEPT !.pc = "returned", !.result = Responded(status)]

\* Lines 113-121, after await fetch rejected: before the last round sleep, in
\* the last rethrow.
AfterFailure(c, retries) ==
    LET got == [c EXCEPT !.attempts = @ + 1, !.outcomes = Append(@, NetworkFailure)]
    IN  IF c.i < retries
        THEN [got EXCEPT !.pc = "sleep", !.waits = Append(@, BackoffNetwork * 2 ^ c.i)]
        ELSE [got EXCEPT !.pc = "threw", !.result = NetworkFailure]

\* await fetch resolves with a response of that status.
FetchResponds(status, retries) ==
    /\ client.pc = "fetch"
    /\ client' = AfterResponse(client, status, retries)
    /\ UNCHANGED <<server, page, unit>>

\* FetchFails sleeping as long as after a 503.
FetchFailsOverloadedBackoff(retries) ==
    /\ client.pc = "fetch"
    /\ LET c == [client EXCEPT !.attempts = @ + 1, !.outcomes = Append(@, NetworkFailure)]
       IN  IF client.i < retries
           THEN client' = [c EXCEPT !.pc = "sleep",
                                    !.waits = Append(@, BackoffOverloaded * 2 ^ client.i)]
           ELSE client' = [c EXCEPT !.pc = "threw", !.result = NetworkFailure]
    /\ UNCHANGED <<server, page, unit>>

\* await fetch rejects.
FetchFails(retries) ==
    /\ client.pc = "fetch"
    /\ client' = AfterFailure(client, retries)
    /\ UNCHANGED <<server, page, unit>>

\* await sleep(wait) resolves; continue: i++ and the loop test.
SleepDone(retries) ==
    /\ client.pc = "sleep"
    /\ IF client.i + 1 <= retries
       THEN client' = [client EXCEPT !.pc = "fetch", !.i = @ + 1]
       ELSE client' = [client EXCEPT !.pc = "threw", !.i = @ + 1]
    /\ UNCHANGED <<server, page, unit>>

RetryNext ==
    \/ CallFetchWithRetry
    \/ \E status \in FetchStatuses : FetchResponds(status, Retries)
    \/ FetchFails(Retries)
    \/ SleepDone(Retries)

SpecRetry == Init /\ [][RetryNext]_vars

(***************************************************************************)
(* The page: file selection and the effect that turns the selected PDF     *)
(* into page images (useEffect of lines 260-296).                          *)
(***************************************************************************)
ConvertMaxPages == 2

\* A PDF file in the file input: its name and its content.
PageFile(name, pdf) == [name |-> name, pdf |-> pdf]

\* One page with text, three pages without text, and one pdfjs cannot open.
PageFiles ==
    {PageFile("a.pdf", Doc(5)),
     PageFile("b.pdf", Pdf(<< <<>>, <<>>, <<>> >>, TRUE, 3, TRUE)),
     PageFile("c.pdf", Pdf(<< <<>> >>, FALSE, 1, FALSE))}

\* What the image input can hold.
PageImageLists == {<<>>, <<Img(1, TRUE)>>, <<Img(1, TRUE), Img(2, TRUE)>>}

\* The PNG of page p of the PDF file of that name.
PagePng(name, p) == [id |-> p, decodable |-> TRUE, of |-> name]

\* What pdfToImages(file, maxPages) can resolve with: the pages 1 to
\* min(numPages, maxPages) in order, without those whose canvas gave no
\* context or no blob.
pdfToImages(file, maxPages) ==
    LET pages == Min(Len(file.pdf.pages), maxPages)
        kept == SUBSET (1..pages)
        Png(p) == PagePng(file.name, p)
        InOrder(S) ==
            IF S = {} THEN <<>>
            ELSE IF S = {1} THEN <<Png(1)>>
            ELSE IF S = {2} THEN <<Png(2)>>
            ELSE <<Png(1), Png(2)>>
    IN  IF ~file.pdf.readable THEN {} ELSE {InOrder(S) : S \in kept}

\* A call of pdfToImages under way: the file it was started for and the
\* alive flag of the effect that started it.
Conversion(file, alive) == [file |-> file, alive |-> alive]

\* The effect without its cleanup: alive stays true.
RunEffectNoCleanup(p) ==
    LET cleared == [p EXCEPT !.pdfImages = <<>>, !.pdfConvertStatus = ""]
    IN  IF p.pdf = NoFile THEN cleared
        ELSE IF Len(p.images) > 0
        THEN [cleared EXCEPT !.pdfConvertStatus = "Manuel gorsel secildigi icin PDF donusturme atlandi."]
        ELSE [cleared EXCEPT !.pdfConvertStatus = "PDF sayfalari hazirlaniyor...",
                             !.conversions = @ \cup {Conversion(p.pdf, TRUE)}]

\* The effect of lines 260-296 after a render in which pdf or images.length
\* changed: the cleanup of the effect before it, then run() up to its await.
RunEffect(p) ==
    LET stopped == {Conversion(c.file, FALSE) : c \in p.conversions}
        cleared == [p EXCEPT !.conversions = stopped, !.pdfImages = <<>>,
                             !.pdfConvertStatus = ""]
    IN  IF p.pdf = NoFile THEN cleared
        ELSE IF Len(p.images) > 0
        THEN [cleared EXCEPT !.pdfConvertStatus = "Manuel gorsel secildigi icin PDF donusturme atlandi."]
        ELSE [cleared EXCEPT !.pdfConvertStatus = "PDF sayfalari hazirlaniyor...",
                             !.conversions = @ \cup {Conversion(p.pdf, TRUE)}]

\* The render after the state changed to p: the effect runs when one of its
\* dependencies [pdf, images.length] changed.
Rendered(p, depsChanged) == IF depsChanged THEN RunEffect(p) ELSE p

\* onChange of the PDF input: a file chosen is a new File object, also when
\* it is the same file as before.
OnPdfChange(file) ==
    /\ page' = Rendered([page EXCEPT !.status = "", !.pdf = file],
                        ~(page.pdf = NoFile /\ file = NoFile))
    /\ UNCHANGED <<server, client, unit>>

\* onChange of the image input.
OnImagesChange(files) ==
    /\ page' = Rendered([page EXCEPT !.status = "", !.images = files],
                        Len(files) # Len(page.images))
    /\ UNCHANGED <<server, client, unit>>

clearAll ==
    /\ page' = Rendered([page EXCEPT !.pdf = NoFile, !.images = <<>>, !.pdfImages = <<>>,
                                     !.pdfConvertStatus = "", !.status = "Temizlendi."],
                        page.pdf # NoFile \/ Len(page.images) # 0)
    /\ UNCHANGED <<server, client, unit>>

Prepared(n) ==
    IF n = 1 THEN "PDF'den 1 sayfa hazirlandi" ELSE "PDF'den 2 sayfa hazirlandi"

\* await pdfToImages(pdf, 2) resolves with imgs: lines 277-284.
PdfToImagesResolves(c, imgs) ==
    /\ c \in page.conversions
    /\ LET rest == [page EXCEPT !.conversions = @ \ {c}]
       IN  page' = IF ~c.alive THEN rest
                   ELSE IF Len(imgs) = 0
                   THEN [rest EXCEPT !.pdfConvertStatus = "PDF icerigi okunamadi."]
                   ELSE [rest EXCEPT !.pdfImages = imgs,
                                     !.pdfConvertStatus = Prepared(Len(imgs))]
    /\ UNCHANGED <<server, client, unit>>

\* await pdfToImages(pdf, 2) rejects: lines 285-289.
PdfToImagesRejects(c) ==
    /\ c \in page.conversions
    /\ LET rest == [page EXCEPT !.conversions = @ \ {c}]
       IN  page' = IF ~c.alive THEN rest
                   ELSE [rest EXCEPT !.pdfConvertStatus = "PDF donusturme hatasi."]
    /\ UNCHANGED <<server, client, unit>>

ConvertNext ==
    \/ \E file \in PageFiles \cup {NoFile} : OnPdfChange(file)
    \/ \E files \in PageImageLists : OnImagesChange(files)
    \/ clearAll
    \/ \E c \in page.conversions :
           \E imgs \in pdfToImages(c.file, ConvertMaxPages) : PdfToImagesResolves(c, imgs)
    \/ \E c \in page.conversions : PdfToImagesRejects(c)

SpecConvert == Init /\ [][ConvertNext]_vars

(***************************************************************************)
(* The page: handleSummarize, its fetchWithRetry and the route behind it.  *)
(***************************************************************************)
MaxSubmits == 1

\* The signed-in user of the page.
PageUser == "u1"

canProcess(p) == p.pdf # NoFile \/ Len(p.images) > 0
effectiveImages(p) == IF Len(p.images) > 0 THEN p.images ELSE p.pdfImages
isPreparingPdf(p) ==
    p.pdf # NoFile /\ Len(p.images) = 0
      /\ p.pdfConvertStatus = "PDF sayfalari hazirlaniyor..."

\* The button of line 505 takes a click.
SummarizeEnabled(p) == ~(p.loading \/ ~canProcess(p) \/ isPreparingPdf(p))

\* Lines 314-318: the FormData and the call of fetchWithRetry.
Submitting(p) ==
    [p EXCEPT !.loading = TRUE, !.status = "Isleniyor...",
              !.submit = [NoSubmit EXCEPT !.pc = "fetching", !.hasPdf = p.pdf # NoFile,
                                          !.pdf = p.pdf, !.images = effectiveImages(p)],
              !.submits = @ + 1]

\* handleSummarize without the test of line 304.
handleSummarizeUnguarded ==
    /\ SummarizeEnabled(page) /\ client.pc = "idle"
    /\ IF ~canProcess(page)
       THEN page' = [page EXCEPT !.status = "Dosya secilmedi."] /\ UNCHANGED client
       ELSE page' = Submitting(page) /\ client' = [ClientIdle EXCEPT !.pc = "fetch"]
    /\ UNCHANGED <<server, unit>>

\* A click on the button: handleSummarize up to await fetchWithRetry.
handleSummarize ==
    /\ SummarizeEnabled(page) /\ client.pc = "idle"
    /\ IF ~canProcess(page)
       THEN page' = [page EXCEPT !.status = "Dosya secilmedi."] /\ UNCHANGED client
       ELSE IF page.pdf # NoFile /\ Len(page.images) = 0 /\ Len(page.pdfImages) = 0
       THEN /\ page' = [page EXCEPT !.status = "PDF sayfalari hazirlanmadi / hazirlanamadi."]
            /\ UNCHANGED client
       ELSE page' = Submitting(page) /\ client' = [ClientIdle EXCEPT !.pc = "fetch"]
    /\ UNCHANGED <<server, unit>>

\* The form the route reads from the FormData fd.
FormOf(fd) == Form(TRUE, fd.hasPdf, IF fd.hasPdf THEN fd.pdf.pdf ELSE Doc(5), fd.images)

\* The request of the fetch under way reaches the route.
PostArrives ==
    /\ client.pc = "fetch" /\ page.submit.pc = "fetching"
    /\ resp = NoResp
    /\ PostStart(PageUser, FormOf(page.submit), TRUE)

\* The response reaches the page: await fetch resolves.
ResponseArrives ==
    /\ client.pc = "fetch" /\ resp.endpoint = "POST"
    /\ client' = AfterResponse(client, resp.status, Retries)
    /\ page' = [page EXCEPT !.submit.res = resp]
    /\ resp' = NoResp
    /\ UNCHANGED <<apiKey, users, summaries, nextId, now, req, unit>>

\* The response is lost on its way to the page: await fetch rejects after
\* the route has answered.
ResponseLost ==
    /\ client.pc = "fetch" /\ resp.endpoint = "POST"
    /\ client' = AfterFailure(client, Retries)
    /\ resp' = NoResp
    /\ UNCHANGED <<apiKey, users, summaries, nextId, now, req, page, unit>>

\* The request never reaches the route: await fetch rejects.
RequestLost ==
    /\ page.submit.pc = "fetching" /\ resp = NoResp /\ req.pc = "idle"
    /\ FetchFails(Retries)

\* Lines 320-364: handleSummarize after await fetchWithRetry.
handleSummarizeReturns ==
    /\ page.submit.pc = "fetching" /\ client.pc \in {"returned", "threw"}
    /\ LET res == page.submit.res
           done == [page EXCEPT !.loading = FALSE, !.submit = NoSubmit]
       IN  page' = IF client.pc = "threw"
                   THEN [done EXCEPT !.status = "Baglanti / ag hatasi."]
                   ELSE IF res.status # 200
                   THEN IF res.status = 429
                        THEN [done EXCEPT !.status = "Kota sinirina ulasildi (429)."]
                        ELSE IF res.status = 503
                        THEN [done EXCEPT !.status = "Model su an yogun (503)."]
                        ELSE IF res.body.ok = "false"
                        THEN [done EXCEPT !.status = res.body.error]
                        ELSE [done EXCEPT !.status = "Sunucu hatasi."]
                   ELSE IF res.body.ok # "true"
                   THEN [done EXCEPT !.status = "Beklenmeyen cevap formati."]
                   ELSE [done EXCEPT !.history = <<res.body.data[1].id>> \o @,
                                     !.status = "Ozet basariyla olusturuldu"]
    /\ client' = ClientIdle
    /\ UNCHANGED <<server, unit>>

\* The page with the route behind it. The form is chosen, and the PDF
\* converted, before the click: what is sent is fixed when handleSummarize
\* builds its FormData (line 314), so the page is left alone while the
\* request is under way.
SubmitNext ==
    \/ \E file \in PageFiles \cup {NoFile} : page.submit.pc = "idle" /\ OnPdfChange(file)
    \/ \E files \in PageImageLists : page.submit.pc = "idle" /\ OnImagesChange(files)
    \/ \E c \in page.conversions :
           \E imgs \in pdfToImages(c.file, ConvertMaxPages) :
               page.submit.pc = "idle" /\ PdfToImagesResolves(c, imgs)
    \/ \E c \in page.conversions : page.submit.pc = "idle" /\ PdfToImagesRejects(c)
    \/ page.submits < MaxSubmits /\ handleSummarize
    \/ PostArrives
    \/ IssueSingle
    \/ \E raw \in StoreFinalRaws : PendingKind = "single" /\ ModelReturns(raw)
    \/ \E message \in ModelErrors : ModelThrows(message)
    \/ \E tick \in Ticks : PostFinish(tick)
    \/ ResponseArrives
    \/ ResponseLost
    \/ RequestLost
    \/ SleepDone(Retries)
    \/ handleSummarizeReturns

SpecSubmit == Init /\ [][SubmitNext]_vars

(***************************************************************************)
(* The page: refreshHistory and clearHistoryDb over the route of the       *)
(* history.                                                                *)
(***************************************************************************)
MaxClearRows == 52
ClearMixed == 1

\* The ids of the rows of a listing, as the page keeps them.
ItemIds(data) == [i \in 1..Len(data) |-> data[i].id]

\* The effect of lines 249-251 after the first render calls refreshHistory:
\* up to its await fetch.
refreshHistory ==
    /\ ~page.mounted /\ resp = NoResp
    /\ page' = [page EXCEPT !.refreshing = TRUE, !.mounted = TRUE]
    /\ UNCHANGED <<server, client, unit>>

\* The GET of refreshHistory reaches the route.
HistoryArrives ==
    /\ page.refreshing /\ resp = NoResp
    /\ GetHistory(PageUser)

\* setStatus of line 388, with the end of clearHistoryDb.
Cleared(p) == [p EXCEPT !.status = "Gecmis silindi", !.clear = NoClear]

\* Lines 210-241: refreshHistory after its await fetch; when clearHistoryDb
\* awaits it, line 388 follows.
refreshHistoryReturns ==
    /\ page.refreshing /\ resp.endpoint = "GET /history"
    /\ LET got == [page EXCEPT !.refreshing = FALSE]
           read == IF resp.status # 200
                   THEN [got EXCEPT !.history = IF resp.status = 401 THEN <<>> ELSE @,
                                    !.status = resp.body.error]
                   ELSE [got EXCEPT !.history = ItemIds(resp.body.data)]
       IN  page' = IF page.clear.pc = "refreshing" THEN Cleared(read) ELSE read
    /\ resp' = NoResp
    /\ UNCHANGED <<apiKey, users, summaries, nextId, now, req, client, unit>>

\* A click on "Gecmisi Sil" once the history is loaded: clearHistoryDb up to
\* its first await, the DELETE of the first item of history or, without
\* items, refreshHistory.
clearHistoryDb ==
    /\ page.mounted /\ page.clear.pc = "idle" /\ ~page.refreshing /\ resp = NoResp
    /\ page' = IF page.history = <<>>
               THEN [page EXCEPT !.clear = [NoClear EXCEPT !.pc = "refreshing"],
                                 !.refreshing = TRUE]
               ELSE [page EXCEPT !.clear = [pc |-> "deleting", items |-> page.history,
                                            k |-> 1]]
    /\ UNCHANGED <<server, client, unit>>

\* The DELETE of the item in turn reaches the route.
DeleteArrives ==
    /\ page.clear.pc = "deleting" /\ resp = NoResp
    /\ Delete(PageUser, page.clear.items[page.clear.k])

\* Lines 381-387: after await fetch of a DELETE: stop on an error other than
\* 404, go on to the next item, or call refreshHistory after the last.
clearHistoryDbDeleted ==
    /\ page.clear.pc = "deleting" /\ resp.endpoint = "DELETE"
    /\ page' = IF resp.status \notin {200, 404}
               THEN [page EXCEPT !.status = "Gecmis silinirken hata olustu.",
                                 !.clear = NoClear]
               ELSE IF page.clear.k < Len(page.clear.items)
               THEN [page EXCEPT !.clear.k = @ + 1]
               ELSE [page EXCEPT !.clear.pc = "refreshing", !.refreshing = TRUE]
    /\ resp' = NoResp
    /\ UNCHANGED <<apiKey, users, summaries, nextId, now, req, client, unit>>

\* The user's rows are written before the page is opened (by requests of an
\* earlier visit), one image each; the oldest may be deleted from another tab
\* while the page shows its history. The page loads the history once and
\* clears it any number of times.
ClearNext ==
    \/ resp.endpoint = "POST" /\ ResponseSent
    \/ /\ resp = NoResp /\ nextId <= MaxClearRows /\ ~page.mounted
       /\ PostStart(PageUser, BulkForm, TRUE)
    \/ IssueSingle
    \/ PendingKind = "single" /\ ModelReturns(RawOk)
    \/ PostFinish(1)
    \/ \E id \in 1..ClearMixed :
           /\ resp = NoResp /\ req.pc = "idle" /\ page.clear.pc = "idle" /\ ~page.refreshing
           /\ page.history # <<>>
           /\ Delete(PageUser, id)
    \/ resp.endpoint = "DELETE" /\ page.clear.pc = "idle" /\ ResponseSent
    \/ req.pc = "idle" /\ refreshHistory
    \/ HistoryArrives
    \/ refreshHistoryReturns
    \/ req.pc = "idle" /\ clearHistoryDb
    \/ DeleteArrives
    \/ clearHistoryDbDeleted

SpecClear == Init /\ [][ClearNext]_vars

(***************************************************************************)
(* The helpers of the route called on their own.                           *)
(***************************************************************************)
MaxChunkLen == 7
MaxChunkSize == 4

\* Texts to cut: nothing, blanks only, and letters (one run, or two words
\* with a blank between them) with and without blanks around them.
ChunkBodies ==
    {<<>>, <<Run("a", 2), Run(" ", 1), Run("b", 3)>>}
        \cup {<<Run("a", n)>> : n \in 1..MaxChunkLen}
ChunkMargins == {<<>>, <<Run(" ", 1)>>, <<Run("\n", 2)>>, <<Run(" ", 1), Run("\n", 1)>>}
ChunkInputs ==
    {ConcatText(ConcatText(pre, body), suf) :
         pre \in ChunkMargins, body \in ChunkBodies, suf \in ChunkMargins}
ChunkSizes == 1..MaxChunkSize

CallChunkText(s, chunkSize) ==
    /\ unit = NoCall
    /\ unit' = [fn |-> "chunkText", args |-> [s |-> s, chunkSize |-> chunkSize],
                out |-> chunkText(s, chunkSize)]
    /\ UNCHANGED <<server, client, page>>

MaxRasterPages == 3

\* PDFs to rasterize: with or without a page count in sharp's metadata, with
\* more pages than are asked for, and some that sharp cannot render.
RasterPdfs ==
    {Pdf(<< <<>> >>, TRUE, n, renderable) : n \in {-1, 0, 1, 2, 3, 4}, renderable \in BOOLEAN}

CallPdfBufferToJpegPagesBase64(pdf, maxPages) ==
    /\ unit = NoCall
    /\ unit' = [fn |-> "pdfBufferToJpegPagesBase64",
                args |-> [pdf |-> pdf, maxPages |-> maxPages],
                out |-> pdfBufferToJpegPagesBase64(pdf, maxPages)]
    /\ UNCHANGED <<server, client, page>>

\* The call is over; the next one can be made.
UnitReturns ==
    /\ unit # NoCall
    /\ unit' = NoCall
    /\ UNCHANGED <<server, client, page>>

UnitNext ==
    \/ \E s \in ChunkInputs, chunkSize \in ChunkSizes : CallChunkText(s, chunkSize)
    \/ \E pdf \in RasterPdfs, maxPages \in 1..MaxRasterPages :
           CallPdfBufferToJpegPagesBase64(pdf, maxPages)
    \/ UnitReturns

SpecUnits == Init /\ [][UnitNext]_vars

(***************************************************************************)
(* Properties of the POST pipeline, checked under Spec.                    *)
(***************************************************************************)

\* C1: a request whose extracted text is longer than 12000 characters and
\* that carries no image issues one chunk call per 9000-character slice and
\* then one merge call: ceil(length / 9000) + 1 calls by the time the answer
\* is parsed, the merge call after every chunk call.
C1_ChunkAndMerge ==
    (req.pc # "idle" /\ LenText(req.pdfText) > 12000
       /\ Len(req.images) = 0 /\ Len(req.autoPdfImages) = 0)
    => LET n == (LenText(req.pdfText) + 8999) \div 9000
       IN  /\ req.pc \in {"chunk", "merge", "parse"}
           /\ Len(req.calls) <= n + 1
           /\ \A i \in 1..Len(req.calls) :
                  req.calls[i].kind = IF i <= n THEN "chunk" ELSE "merge"
           /\ req.pc = "merge" => Len(req.calls) = n + (IF req.pending THEN 1 ELSE 0)
           /\ req.pc = "parse" => Len(req.calls) = n + 1

C1_Witness ==
    /\ req.pc = "parse"
    /\ LenText(req.pdfText) = 18001
    /\ Len(req.images) = 0 /\ Len(req.autoPdfImages) = 0
    /\ Len(req.calls) = 4

\* C2: a request in the summarization step whose text is at most 12000
\* characters, or that carries an image, issues one model call, the direct
\* one, and no chunk or merge call.
C2_SingleCall ==
    (req.pc # "idle"
       /\ (LenText(req.pdfText) <= 12000 \/ Len(req.images) > 0
             \/ Len(req.autoPdfImages) > 0))
    => /\ req.pc \in {"single", "parse"}
       /\ Len(req.calls) <= 1
       /\ \A i \in 1..Len(req.calls) : req.calls[i].kind = "single"
       /\ (req.pending \/ req.pc = "parse") => Len(req.calls) = 1

C2_Witness ==
    /\ req.pc = "parse"
    /\ LenText(req.pdfText) = 12000
    /\ Len(req.images) = 0 /\ Len(req.autoPdfImages) = 0
    /\ Len(req.calls) = 1 /\ req.calls[1].kind = "single"

\* C3: no model call carries empty content (each call has text or at least
\* one image), and a request with a PDF, no recoverable text and no uploaded
\* image went through the rasterizer before any call or refusal.
C3_NoEmptyContentCall ==
    /\ \A i \in 1..Len(req.calls) :
           LET c == req.calls[i]
           IN  CASE c.kind = "single" -> LenText(c.text) > 0 \/ Len(c.images) > 0
                 [] c.kind = "chunk" -> LenText(c.text) > 0
                 [] c.kind = "merge" -> Len(c.partials) > 0 /\ LenText(req.pdfText) > 0
                 [] OTHER -> FALSE
    /\ (req.pc # "idle" /\ req.hasPdf /\ LenText(TrimText(req.pdfText)) = 0
          /\ Len(req.images) = 0)
       => req.rasterTried /\ Len(req.autoPdfImages) > 0
    /\ (resp.endpoint = "POST"
          /\ resp.input.hasPdf /\ resp.input.noText /\ resp.input.images = 0)
       => resp.input.rasterTried

C3_Witness ==
    /\ Len(req.calls) = 1
    /\ req.hasPdf /\ req.pdfText = <<>> /\ req.rasterTried
    /\ LenText(req.calls[1].text) = 0
    /\ Len(req.calls[1].images) > 0

\* The two halves of C4: the rows at rest, and the step that inserts one.
C4_KeywordsNonEmpty ==
    \A r \in summaries :
        /\ Len(r.keywords) > 0
        /\ \A j \in 1..Len(r.keywords) : r.keywords[j].t = "str"

C4_DefaultSubstituted ==
    (req.pc = "parse" /\ req'.pc = "idle"
       /\ req.raw \in {RawEmptyKeywords, RawKeywordsNotArray, RawKeywordsNoString,
                       RawNoKeywords})
    => \E r \in summaries' \ summaries :
           r.keywords = <<JStr(<<"s", "u", "m", "m", "a", "r", "y">>),
                          JStr(<<"d", "o", "c", "u", "m", "e", "n", "t">>),
                          JStr(<<"a", "n", "a", "l", "y", "s", "i", "s">>)>>

\* C4: the keywords of every persisted row are a non-empty list of strings,
\* and a model answer with no usable keywords is persisted with the default
\* triple "summary", "document", "analysis".
C4_Keywords == []C4_KeywordsNonEmpty /\ [][C4_DefaultSubstituted]_vars

C4_Witness ==
    /\ resp.endpoint = "POST" /\ resp.status = 200
    /\ \E r \in summaries :
           /\ r.keywords = DefaultKeywords
           /\ resp.body.data[1].id = r.id

C8_Unparsable ==
    {RawNoSummaryField, RawSummaryNotString, RawArray, RawBackwards, RawEmpty,
     RawGarbage}

C8_Step ==
    (req.pc = "parse" /\ req'.pc = "idle" /\ req.raw \in C8_Unparsable)
    => /\ resp'.endpoint = "POST"
       /\ resp'.status = 500
       /\ resp'.body.ok = "false"
       /\ resp'.body.error # ""
       /\ Len(resp'.body.raw) <= 300
       /\ resp'.body.raw = SubSeq(req.raw, 1, Min(300, Len(req.raw)))
       /\ summaries' = summaries

\* C8: when no object with a string summary can be recovered from the model
\* answer, the request is answered 500 with an error and the first at most
\* 300 characters of the answer, and no row is inserted.
C8_UnparsableAnswer == [][C8_Step]_vars

C8_Witness ==
    /\ resp.endpoint = "POST" /\ resp.status = 500
    /\ Len(resp.body.raw) = 300
    /\ summaries = {}

C10_Step ==
    (resp'.endpoint = "POST" /\ resp'.caller # NoUser /\ apiKey
       /\ resp'.input.parses /\ ~resp'.input.hasPdf /\ resp'.input.images = 0)
    => /\ resp'.status = 400
       /\ resp'.body.ok = "false"
       /\ resp'.body.error # ""
       /\ req = Idle /\ req' = Idle
       /\ summaries' = summaries

\* C10: a POST from a signed-in caller that carries neither a PDF nor an
\* image is answered 400 with an error, before any model call and with no
\* row inserted.
C10_EmptyForm == [][C10_Step]_vars

C10_Witness ==
    /\ resp.endpoint = "POST" /\ resp.status = 400
    /\ resp.caller # NoUser
    /\ resp.input.parses /\ ~resp.input.hasPdf /\ resp.input.images = 0

ScanGuidance ==
    {"Bu PDF taranmis (text layer yok) ve otomatik gorsel cikarma basarisiz oldu.",
     "Bu PDF taranmis (text layer yok). Otomatik sayfa gorseli cikarilamadi."}

C11_NoCallWithoutPages ==
    (req.pc # "idle" /\ req.hasPdf /\ req.pdfText = <<>> /\ Len(req.images) = 0)
    => req.renderable /\ Len(req.autoPdfImages) > 0

C11_Step ==
    (resp'.endpoint = "POST" /\ resp'.input.hasPdf /\ resp'.input.noText
       /\ resp'.input.images = 0 /\ ~resp'.input.renderable)
    => /\ resp'.status = 400
       /\ resp'.body.ok = "false"
       /\ resp'.body.error \in ScanGuidance
       /\ req = Idle /\ req' = Idle
       /\ summaries' = summaries

\* C11: a POST with a PDF that yields no text, no uploaded image and pages
\* the rasterizer cannot produce is answered 400 with the guidance to upload
\* a page image, with no model call and no row inserted.
C11_ScannedUnreadable == []C11_NoCallWithoutPages /\ [][C11_Step]_vars

C11_Witness ==
    /\ resp.endpoint = "POST" /\ resp.status = 400
    /\ resp.input.hasPdf /\ resp.input.noText /\ resp.input.rasterTried
    /\ ~resp.input.renderable
    /\ resp.body.error \in ScanGuidance

C13_Step ==
    (req.pc = "parse" /\ resp'.endpoint = "POST" /\ resp'.status = 200)
    => \E r \in summaries' \ summaries :
           LET anyImage == Len(req.images) > 0 \/ Len(req.autoPdfImages) > 0
           IN  /\ summaries' = summaries \cup {r}
               /\ r.source = "pdf_image" <=> (req.hasPdf /\ anyImage)
               /\ r.source = "pdf" <=> (req.hasPdf /\ ~anyImage)
               /\ r.source = "image" <=> ~req.hasPdf

\* C13: the row a successful POST inserts is classified pdf+image exactly
\* when a PDF and an uploaded or rasterized image are present, pdf exactly
\* when a PDF and no image is, image exactly when there is no PDF.
C13_SourceClassification == [][C13_Step]_vars

C13_Witness ==
    /\ resp.endpoint = "POST" /\ resp.status = 200
    /\ resp.input.hasPdf /\ resp.input.images = 0 /\ resp.input.rasterTried
    /\ \E r \in summaries : r.id = resp.body.data[1].id /\ r.source = "pdf_image"

\* C14: a model call that fails with 503 (overloaded) is answered to the
\* caller of POST with status 503, not with the generic 500.
C14_OverloadSurfaced ==
    (resp.endpoint = "POST" /\ resp.body.error = "503 The model is overloaded.")
    => resp.status = 503

\* C18: the calls of one chunk-and-merge request are issued one after the
\* other, each after the one before it returned; the k-th chunk call carries
\* the k-th 9000-character slice of the text; the merge call comes after
\* every chunk call returned and lists their answers labelled CHUNK_1 to
\* CHUNK_n, CHUNK_k being the answer to the k-th slice.
C18_SequentialInOrder ==
    LET calls == req.calls
        text == TrimText(req.pdfText)
    IN  /\ \A k \in 1..Len(calls) : k < Len(calls) => calls[k].out = "returned"
        /\ req.pending <=> (Len(calls) > 0 /\ calls[Len(calls)].out = "pending")
        /\ \A k \in 1..Len(calls) :
               calls[k].kind = "chunk"
               => /\ \A j \in 1..k : calls[j].kind = "chunk"
                  /\ calls[k].text = SliceText(text, (k - 1) * 9000, k * 9000)
        /\ \A m \in 1..Len(calls) :
               calls[m].kind = "merge"
               => /\ m = Len(calls)
                  /\ (m - 1) * 9000 >= LenText(text)
                  /\ Len(calls[m].partials) = m - 1
                  /\ \A k \in 1..(m - 1) :
                         /\ calls[k].kind = "chunk" /\ calls[k].out = "returned"
                         /\ calls[m].partials[k].label = k
                         /\ calls[m].partials[k].raw = calls[k].res

C18_Witness ==
    /\ Len(req.calls) = 3
    /\ req.calls[3].kind = "merge" /\ req.pending
    /\ req.calls[3].partials = <<[label |-> 1, raw |-> <<"y">>], [label |-> 2, raw |-> <<"x">>]>>

C20_Banded(call) == call.kind \in {"merge", "single"}

C20_Scenario ==
    (req.pc # "idle" /\ LenText(req.pdfText) = 15000
       /\ Len(req.images) = 0 /\ Len(req.autoPdfImages) = 0)
    => /\ req.pc \in {"chunk", "merge", "parse"}
       /\ req.summaryLength = "24-34"
       /\ \A k \in 1..Len(req.calls) :
              /\ req.calls[k].kind \in {"chunk", "merge"}
              /\ C20_Banded(req.calls[k]) => req.calls[k].summaryLength = "24-34"

\* C20 as stated: the band passed to the model is one of 16-22, 24-34 and
\* 34-45, and 34-45 only for a text longer than 40000 characters; 15000
\* characters without image are chunked and merged with 24-34.
C20_ThreeBands ==
    /\ \A k \in 1..Len(req.calls) :
           C20_Banded(req.calls[k])
           => /\ req.calls[k].summaryLength \in {"16-22", "24-34", "34-45"}
              /\ req.calls[k].summaryLength = "34-45" => LenText(req.pdfText) > 40000
    /\ C20_Scenario

\* C20: the band passed to the model is 16-22 for a text of 1 to 9999
\* characters, 24-34 for 10000 to 39999, 34-45 for 40000 and more, and 18-24
\* when no text was extracted; 15000 characters without image are chunked
\* and merged with 24-34.
C20_BandByLength ==
    /\ \A k \in 1..Len(req.calls) :
           C20_Banded(req.calls[k])
           => LET n == LenText(req.pdfText)
              IN  req.calls[k].summaryLength =
                      CASE n = 0 -> "18-24"
                        [] n >= 1 /\ n <= 9999 -> "16-22"
                        [] n >= 10000 /\ n <= 39999 -> "24-34"
                        [] n >= 40000 -> "34-45"
    /\ C20_Scenario

C20_Witness ==
    /\ LenText(req.pdfText) = 40000
    /\ Len(req.calls) > 0
    /\ req.calls[Len(req.calls)].kind = "merge"
    /\ req.calls[Len(req.calls)].summaryLength = "34-45"

\* C24: the direct call carries at most 4 images: the first 4 uploaded
\* images in upload order when any was uploaded, otherwise the rasterized
\* pages, which exist only for a PDF without text; uploaded images and
\* rasterized pages never travel in one call, and chunk and merge calls
\* carry no image.
C24_AttachedImages ==
    \A k \in 1..Len(req.calls) :
        LET call == req.calls[k]
            n == Len(req.images)
        IN  IF call.kind \in {"chunk", "merge"} THEN call.images = <<>>
            ELSE /\ Len(call.images) <= 4
                 /\ \A i, j \in 1..Len(call.images) :
                        call.images[i].data[1] = call.images[j].data[1]
                 /\ IF n > 0
                    THEN /\ Len(call.images) = (IF n < 4 THEN n ELSE 4)
                         /\ \A i \in 1..Len(call.images) :
                                call.images[i].data = <<"upload", req.images[i].id>>
                    ELSE /\ \A i \in 1..Len(call.images) :
                                call.images[i].data = <<"page", i - 1>>
                         /\ call.images # <<>> => req.hasPdf /\ LenText(req.pdfText) = 0

C24_Witness ==
    /\ Len(req.calls) = 1 /\ req.calls[1].kind = "single"
    /\ Len(req.images) = 5 /\ req.hasPdf /\ LenText(req.pdfText) = 0
    /\ Len(req.calls[1].images) = 4
    /\ req.calls[1].images[4].data = <<"upload", 4>>

RECURSIVE C25_PartsSent(_)
C25_PartsSent(calls) ==
    IF calls = <<>> THEN 0 ELSE Len(Head(calls).images) + C25_PartsSent(Tail(calls))

C25_Step ==
    (req.pc = "parse" /\ summaries' # summaries)
    => \A r \in summaries' \ summaries : r.imageCount = C25_PartsSent(req.calls)

\* C25: the imageCount of the row a request inserts is the number of image
\* parts that were attached to the model calls of that request.
C25_ImageCountIsUsed == [][C25_Step]_vars

\* C23: a PDF that pdfjs cannot open, or that has no text, counts as a PDF
\* without text and goes to the image fallback; a POST with a PDF during
\* which the pdfjs library cannot be loaded is answered with an error (500),
\* is not answered as a scanned PDF, makes no model call and inserts no row.
C23_LoadFailureLoud ==
    /\ (resp.endpoint = "POST" /\ resp.input.hasPdf /\ resp.input.pdfjsLoads
          /\ resp.input.noText /\ resp.input.images = 0)
       => resp.input.rasterTried
    /\ (req.pc # "idle" /\ req.hasPdf) => req.pdfjsLoads
    /\ (resp.endpoint = "POST" /\ resp.caller # NoUser /\ apiKey /\ resp.input.parses
          /\ resp.input.hasPdf /\ ~resp.input.pdfjsLoads)
       => /\ resp.status = 500
          /\ resp.body.ok = "false"
          /\ resp.body.error \notin ScanGuidance
          /\ ~resp.input.rasterTried

(***************************************************************************)
(* Properties of the whole service, checked under SpecStore.               *)
(***************************************************************************)

C5_Step ==
    (resp'.endpoint = "DELETE" /\ resp'.caller # NoUser)
    => LET owned == {r \in summaries :
                        r.id = resp'.input.id /\ r.userId = resp'.caller}
       IN  IF owned = {}
           THEN resp'.status = 404 /\ summaries' = summaries
           ELSE /\ resp'.status = 200 /\ resp'.body.success
                /\ summaries' = summaries \ owned
                /\ Cardinality(owned) = 1

\* C5: DELETE of an id that names no row, or a row of another user, answers
\* 404 and leaves every row in place; DELETE of a row the caller owns
\* removes that row and no other.
C5_Delete == [][C5_Step]_vars

C5_Witness ==
    /\ resp.endpoint = "DELETE" /\ resp.status = 404
    /\ \E r \in summaries : r.id = resp.input.id /\ r.userId # resp.caller

C7_OriginalStep ==
    (resp'.endpoint = "POST" /\ resp'.status # 200)
    => users' = users /\ summaries' = summaries

\* C7 as stated: a POST that does not answer 200 leaves User and Summary as
\* they were.
C7_NoStateOnFailure == [][C7_OriginalStep]_vars

C7_Step ==
    /\ (summaries' \ summaries # {})
       => /\ req.pc = "parse" /\ parseSummary(req.raw).ok
          /\ resp'.endpoint = "POST" /\ resp'.status = 200 /\ resp'.body.ok = "true"
          /\ Cardinality(summaries' \ summaries) = 1
          /\ \A r \in summaries' \ summaries :
                 r.userId = resp'.caller /\ resp'.body.data[1].id = r.id
    /\ (resp'.endpoint = "POST" /\ resp'.status # 200)
       => /\ summaries' = summaries
          /\ users \subseteq users'
          /\ \A u \in users' \ users : u.id = resp'.caller
    /\ (resp'.endpoint = "POST" /\ resp'.status = 200)
       => Cardinality(summaries' \ summaries) = 1 /\ summaries \subseteq summaries'

\* C7: a row enters Summary only in the step that answers a POST with 200
\* and ok true, after the model answer was validated, one row per such
\* answer; a POST that fails inserts no Summary row, and the only state it
\* can leave is the User row of its caller.
C7_RowsOnlyOnSuccess == [][C7_Step]_vars

C7_Witness ==
    /\ resp.endpoint = "POST" /\ resp.status = 500
    /\ resp.body.error \in ModelErrors
    /\ \E u \in users : u.id = resp.caller
    /\ summaries = {}

\* C9: a request without an identity is answered 401 on POST, GET and DELETE.
C9_Unauthenticated401 ==
    (resp.endpoint # "none" /\ resp.caller = NoUser) => resp.status = 401

\* C12: every row stores the enumerated form of its source, and every POST
\* and GET /history answer shows the user-facing form pdf, image or
\* pdf+image.
C12_SourceForms ==
    /\ \A s \in {"pdf", "image", "pdf+image"} : toApiSource(toDbSource(s)) = s
    /\ \A r \in summaries : r.source \in {"pdf", "image", "pdf_image"}
    /\ (resp.endpoint \in {"POST", "GET /history"} /\ resp.status = 200)
       => \A i \in 1..Len(resp.body.data) :
              resp.body.data[i].source \in {"pdf", "image", "pdf+image"}

\* C15 as stated: after an answer to a signed-in caller, on any endpoint, a
\* User row of that caller exists.
C15_UserRowOnAnyEndpoint ==
    (resp.endpoint # "none" /\ resp.caller # NoUser /\ (resp.endpoint = "POST" => apiKey))
    => \E u \in users : u.id = resp.caller

C15_Step ==
    /\ users \subseteq users'
    /\ (resp'.endpoint = "POST" /\ resp'.caller # NoUser /\ apiKey)
       => \E u \in users' : u.id = resp'.caller
    /\ req'.pc # "idle" => \E u \in users' : u.id = req'.userId
    /\ resp'.endpoint \in {"GET /history", "GET /summaries", "DELETE"} => users' = users
    /\ users' # users
       => /\ req.pc = "idle" /\ apiKey
          /\ \E caller \in UserIds :
                 /\ \A u \in users : u.id # caller
                 /\ \E u \in users' : u.id = caller /\ users' = users \cup {u}
                 /\ resp'.endpoint = "POST" => resp'.caller = caller
                 /\ req'.pc # "idle" => req'.userId = caller

\* C15: a User row of an identity exists from its first POST that passes
\* the credential check and authentication, whatever that POST answers; GET
\* and DELETE write no User row; a User row, once written, is never changed.
C15_UserRowOnPost == [][C15_Step]_vars

C15_Witness ==
    /\ resp.endpoint = "GET /history" /\ resp.status = 200
    /\ resp.caller # NoUser
    /\ \A u \in users : u.id # resp.caller
    /\ users # {}

(***************************************************************************)
(* Properties of the listings, checked under SpecBulk.                     *)
(***************************************************************************)

\* C6: a listing answered to a signed-in caller holds only rows of that
\* caller, each once, newest first, the most recent ones, and as many as
\* the caller has up to 50 (GET /history) or 30 (GET /summaries).
C6_ScopedNewestFirstBounded ==
    (resp.endpoint \in {"GET /history", "GET /summaries"} /\ resp.status = 200)
    => LET data == resp.body.data
           mine == {r \in summaries : r.userId = resp.caller}
           take == IF resp.endpoint = "GET /history" THEN 50 ELSE 30
           listed == {data[i].id : i \in 1..Len(data)}
       IN  /\ resp.caller # NoUser
           /\ Len(data) = Min(take, Cardinality(mine))
           /\ \A i \in 1..Len(data) :
                  \E r \in mine : r.id = data[i].id /\ r.createdAt = data[i].createdAt
           /\ \A i, j \in 1..Len(data) :
                  i < j => data[i].createdAt >= data[j].createdAt /\ data[i].id # data[j].id
           /\ \A r \in mine :
                  r.id \notin listed
                  => \A i \in 1..Len(data) : data[i].createdAt >= r.createdAt

C6_Witness ==
    /\ resp.endpoint = "GET /history" /\ resp.status = 200
    /\ Len(resp.body.data) = 50
    /\ Cardinality({r \in summaries : r.userId = resp.caller}) = 51
    /\ \E r \in summaries : r.userId # resp.caller

(***************************************************************************)
(* Properties of the schema, checked under SpecSchema.                     *)
(***************************************************************************)

C16_OwnerExists ==
    \A r \in summaries : Cardinality({u \in users : u.id = r.userId}) = 1

C16_Step ==
    /\ (summaries' \ summaries # {})
       => \A r \in summaries' \ summaries : \E u \in users : u.id = r.userId
    /\ \A u \in users \ users' :
           /\ \A r \in summaries' : r.userId # u.id
           /\ \A r \in summaries : r.userId # u.id => r \in summaries'

\* C16: every Summary row's userId names exactly one existing User row, the
\* User row being there before the Summary is inserted; deleting a User
\* deletes all Summary rows of that user and none of another user.
C16_OwnershipAndCascade == []C16_OwnerExists /\ [][C16_Step]_vars

C16_Witness ==
    /\ nextId = 3
    /\ Cardinality(summaries) = 1
    /\ \A r \in summaries : r.userId = "u2" /\ r.id = 1
    /\ \A u \in users : u.id # "u1"

(***************************************************************************)
(* Properties of fetchWithRetry, checked under SpecRetry.                  *)
(***************************************************************************)

\* C17: fetchWithRetry fetches at most 4 times; after the k-th fetch
\* (k = 1, 2, 3) it sleeps 1200, 2400, 4800 ms when the answer was 503 and
\* 800, 1600, 3200 ms when the fetch failed, and fetches again; any other
\* answer is returned at once; a 503 of the 4th fetch is returned and a
\* failure of the 4th fetch is rethrown.
C17_RetrySchedule ==
    LET n == Len(client.outcomes)
        retried(o) == o = [kind |-> "network", status |-> 0]
                        \/ o = [kind |-> "response", status |-> 503]
        done == client.pc \in {"returned", "threw"}
    IN  /\ client.attempts = n /\ n <= 4
        /\ Len(client.waits) = IF done THEN n - 1 ELSE n
        /\ Len(client.waits) <= 3
        /\ \A k \in 1..Len(client.waits) :
               /\ retried(client.outcomes[k])
               /\ client.waits[k] = IF client.outcomes[k].kind = "network"
                                    THEN <<800, 1600, 3200>>[k]
                                    ELSE <<1200, 2400, 4800>>[k]
        /\ client.pc = "returned"
           => /\ client.result = client.outcomes[n]
              /\ client.result.kind = "response"
              /\ client.result.status = 503 => n = 4
        /\ client.pc = "threw"
           => client.result = client.outcomes[n] /\ client.result.kind = "network" /\ n = 4
        /\ \A k \in 1..n : ~retried(client.outcomes[k]) => k = n /\ client.pc = "returned"
        /\ (n = 4 /\ client.pc # "idle") => done

C17_Witness ==
    /\ client.pc = "threw"
    /\ client.attempts = 4
    /\ client.waits = <<800, 2400, 3200>>

(***************************************************************************)
(* Properties of the answer parser, checked under SpecParse.               *)
(***************************************************************************)

C19_Recovered(obj) ==
    LET want == normalizeSummary(JSON_parse(obj).v)
    IN  /\ resp'.status = 200
        /\ \E r \in summaries' \ summaries :
               r.summary = want.summary /\ r.keywords = want.keywords
                 /\ r.title = TitleFor(want)

C19_Null == resp'.status = 500 /\ resp'.body.ok = "false" /\ summaries' = summaries

C19_Unrecoverable == {RawEmpty, RawBackwards, RawTrailingBrace, RawNoOpener, RawNoBraces}

C19_OriginalStep ==
    (req.pc = "parse" /\ req'.pc = "idle")
    => /\ \A pre \in ProsePrefixes, obj \in EmbeddedObjects, suf \in ProseSuffixes :
              req.raw = Surrounded(pre, obj, suf) => C19_Recovered(obj)
       /\ req.raw \in C19_Unrecoverable => C19_Null

\* C19 as stated: an object surrounded by any text without braces is
\* recovered; a text without "{", without a later "}", or whose slice does
\* not parse gives null.
C19_RecoversEmbedded == [][C19_OriginalStep]_vars

C19_Step ==
    (req.pc = "parse" /\ req'.pc = "idle")
    => /\ \A pre \in ProsePrefixes, obj \in EmbeddedObjects, suf \in ProseSuffixes :
              req.raw = Surrounded(pre, obj, suf)
              => IF pre = <<"[">> /\ suf = <<"]">> THEN C19_Null ELSE C19_Recovered(obj)
       /\ req.raw \in C19_Unrecoverable => C19_Null

\* C19: the whole answer is parsed first and sliced from the first "{" to
\* the last "}" only when that fails: an object surrounded by text without
\* braces is recovered unless the whole answer is itself valid JSON, as it
\* is when the object stands in the brackets of an array, which gives null;
\* a text without "{", without a later "}", or whose slice does not parse
\* gives null.
C19_RecoversUnlessValidJson == [][C19_Step]_vars

C19_Witness ==
    /\ resp.endpoint = "POST" /\ resp.status = 500
    /\ resp.body.raw = <<"[">> \o RawOk \o <<"]">>

(***************************************************************************)
(* Properties of the helpers, checked under SpecUnits.                     *)
(***************************************************************************)

\* The slices of out put together again.
RECURSIVE C21_Joined(_)
C21_Joined(out) == IF out = <<>> THEN <<>> ELSE ConcatText(Head(out), C21_Joined(Tail(out)))

C21_AllBlank(t) == \A i \in 1..Len(t) : t[i].c \in {" ", "\n"}

\* C21: chunkText(s, c) is empty when s is empty or holds blanks only;
\* otherwise its slices are non-empty, put together they are s without its
\* leading and trailing blanks, every slice but the last has c characters,
\* the last has 1 to c, and there are ceil(length / c) of them.
C21_ChunkText ==
    unit.fn = "chunkText"
    => LET s == unit.args.s
           c == unit.args.chunkSize
           out == unit.out
           t == C21_Joined(out)
           n == LenText(t)
       IN  IF C21_AllBlank(s) THEN out = <<>>
           ELSE /\ Len(out) > 0
                /\ \A i \in 1..Len(out) : LenText(out[i]) >= 1
                /\ \A i \in 1..(Len(out) - 1) : LenText(out[i]) = c
                /\ LenText(out[Len(out)]) \in 1..c
                /\ Len(out) = (n + c - 1) \div c
                /\ t[1].c \notin {" ", "\n"} /\ t[Len(t)].c \notin {" ", "\n"}
                /\ \E a \in 0..LenText(s) :
                       /\ t = SliceText(s, a, a + n)
                       /\ C21_AllBlank(SliceText(s, 0, a))
                       /\ C21_AllBlank(SliceText(s, a + n, LenText(s)))

C21_Witness ==
    /\ unit.fn = "chunkText"
    /\ unit.args.s = <<Run(" ", 1), Run("a", 7), Run("\n", 2)>>
    /\ unit.args.chunkSize = 3
    /\ unit.out = <<<<Run("a", 3)>>, <<Run("a", 3)>>, <<Run("a", 1)>>>>

\* C22: pdfBufferToJpegPagesBase64 returns the empty sequence, without
\* failing, for a PDF whose pages cannot be rendered; for any other PDF it
\* returns min(total pages, maxPages) images in page order, the total taken
\* as 1 when the metadata gives no page count.
C22_Rasterizer ==
    unit.fn = "pdfBufferToJpegPagesBase64"
    => LET pdf == unit.args.pdf
           total == IF pdf.sharpPages > 0 THEN pdf.sharpPages ELSE 1
           n == IF total < unit.args.maxPages THEN total ELSE unit.args.maxPages
       IN  /\ ~unit.out.threw
           /\ IF ~pdf.renderable THEN unit.out.pages = <<>>
              ELSE /\ Len(unit.out.pages) = n
                   /\ \A i \in 1..n : unit.out.pages[i].data = <<"page", i - 1>>

(***************************************************************************)
(* Properties of the persisted title, checked under SpecParse.             *)
(***************************************************************************)

C26_TitleBounded == \A r \in summaries : Len(r.title) >= 1 /\ Len(r.title) <= 140

C26_Step ==
    (req.pc = "parse" /\ summaries' # summaries)
    => \A r \in summaries' \ summaries :
           /\ \A n \in 1..280 :
                  req.raw = RawTitleOf(n)
                  => r.title = [i \in 1..(IF n < 140 THEN n ELSE 140) |-> "t"]
           /\ req.raw \in {RawTitleOf(0), RawTitleNotString, RawOk}
              => r.title = <<"A", "k", "a", "d", "e", "m", "i", "k", " ", "O", "z", "e", "t">>

\* C26: the title of every persisted row is a non-empty string of at most
\* 140 characters: a longer model title is cut to its first 140 characters,
\* and a missing, non-string or empty model title is replaced by the default
\* title.
C26_Title == []C26_TitleBounded /\ [][C26_Step]_vars

C26_Witness ==
    /\ resp.endpoint = "POST" /\ resp.status = 200
    /\ \E r \in summaries : r.id = resp.body.data[1].id /\ Len(r.title) = 140
    /\ req.pc = "idle"

(***************************************************************************)
(* Properties of the page, checked under SpecConvert.                      *)
(***************************************************************************)

C29_Belongs ==
    /\ \A i \in 1..Len(page.pdfImages) :
           page.pdf # [name |-> "none"] /\ page.pdfImages[i].of = page.pdf.name
    /\ page.pdfImages # <<>> => Len(page.images) = 0
    /\ page.pdfConvertStatus \in {"PDF'den 1 sayfa hazirlandi", "PDF'den 2 sayfa hazirlandi"}
       <=> page.pdfImages # <<>>
    /\ \A c \in page.conversions :
           c.alive => c.file = page.pdf /\ Len(page.images) = 0 /\ page.pdfImages = <<>>

C29_Step ==
    \A c \in page.conversions \ page'.conversions :
        (page'.pdf = page.pdf /\ page'.images = page.images /\ ~c.alive)
        => page'.pdfImages = page.pdfImages
             /\ page'.pdfConvertStatus = page.pdfConvertStatus

\* C29: the page images in state are those of the PDF now selected; a
\* conversion that was under way when the PDF or the number of manual images
\* changed writes neither its pages nor its status message when it ends.
C29_ConversionSuperseded == []C29_Belongs /\ [][C29_Step]_vars

C29_Witness ==
    /\ page.pdf.name = "a.pdf"
    /\ page.pdfImages = <<[id |-> 1, decodable |-> TRUE, of |-> "a.pdf"]>>
    /\ \E c \in page.conversions : c.file.name = "b.pdf" /\ ~c.alive

(***************************************************************************)
(* Properties of handleSummarize, checked under SpecSubmit.                *)
(***************************************************************************)

\* C27: the calls of handleSummarize have inserted at most one row each,
\* whatever the fetches of fetchWithRetry ended with, also when a response
\* was lost after the route had inserted its row.
C27_OneRowPerInvocation == Cardinality(summaries) <= page.submits

C30_Carried ==
    /\ (page.submit.pc = "fetching" /\ page.submit.hasPdf) => Len(page.submit.images) > 0
    /\ (req.pc # "idle" /\ req.hasPdf) => Len(req.images) > 0
    /\ (resp.endpoint = "POST" /\ resp.input.hasPdf) => resp.input.images > 0
    /\ req.pc \notin {"chunk", "merge"}

C30_Step ==
    /\ (page.pdf # [name |-> "none"] /\ Len(page.images) = 0 /\ Len(page.pdfImages) = 0)
       => page'.submits = page.submits /\ client'.pc # "fetch"
    /\ page'.submits # page.submits
       => /\ page'.submit.hasPdf <=> page.pdf # [name |-> "none"]
          /\ page'.submit.images = IF Len(page.images) > 0 THEN page.images
                                   ELSE page.pdfImages

\* C30: a request handleSummarize sends with a PDF carries the manual images
\* if there are any and the page images of the PDF otherwise, at least one
\* image in either case; with a PDF selected and both lists empty nothing
\* is sent; so the route never sees a PDF from this page without an image.
C30_PdfCarriesImages == []C30_Carried /\ [][C30_Step]_vars

C30_Witness ==
    /\ req.pending /\ req.hasPdf
    /\ req.images = <<[id |-> 1, decodable |-> TRUE, of |-> "b.pdf"],
                      [id |-> 2, decodable |-> TRUE, of |-> "b.pdf"]>>
    /\ page.images = <<>>

(***************************************************************************)
(* Properties of clearHistoryDb, checked under SpecClear.                  *)
(***************************************************************************)

C28_Step ==
    (page.clear.pc = "refreshing" /\ page'.clear.pc = "idle"
       /\ page'.status = "Gecmis silindi")
    => /\ \A r \in summaries' : r.userId # "u1"
       /\ page'.history = <<>>

\* C28: when clearHistoryDb ends with the status "Gecmis silindi", every
\* delete having been answered ok or 404, the user has no Summary row left
\* and the history shown is empty, however many rows the user had.
C28_HistoryCleared == [][C28_Step]_vars
====
